---- MODULE Spec2Model ----
(***************************************************************************)
(* A model of port-experimental/techdoc-experiment: the documentation      *)
(* search (port_tools/search/bot.py), the ingester and its catalog client   *)
(* (port_tools/ingester.py, port_tools/clients/port_client.py), the local   *)
(* and Git fetchers (port_tools/fetchers) and the document parser           *)
(* (port_tools/parsers/doc_parser.py).                                      *)
(*                                                                         *)
(* Python strings are TLA+ strings, handled a character at a time with      *)
(* Len, SubSeq and \o.  Each component is a state machine of its own; a     *)
(* specification of one component leaves the variables of the others at     *)
(* their initial values.                                                    *)
(***************************************************************************)
EXTENDS Integers, Sequences, FiniteSets, TLC

VARIABLES
    \* ---- DocumentSearcher.multi_strategy_search (search/bot.py)
    s_pc,            \* "idle" | "direct" | "keyword" | "done"
    query,           \* the query argument
    max_results,     \* the max_results argument
    keywords,        \* the local list keywords = query.split()
    all_results,     \* the local list all_results
    kw_index,        \* how many tokens of query.split() the keyword loop has consumed
    searches,        \* the search terms passed to search_entities, in call order
    direct_count,    \* how many entries of all_results strategy 1 contributed
    unique_results,  \* the returned list (unique_results[:max_results])
    s_caller,        \* "searcher": multi_strategy_search called as such; "bot": by search_and_respond
    s_outcomes,      \* what each search_entities call of search_and_respond met and returned
    response,        \* the text search_and_respond returns, as its parts; <<>> while there is none
    r_last,          \* the latest response built from a result list: the list and the text
    \* ---- DocumentIngester.ingest_document and the catalog (ingester.py, port_client.py)
    catalog,         \* the entities the remote catalog holds
    i_last,          \* the latest ingest_document call: argument, request outcome, result
    ingested,        \* (source, file_path, identifier) of every document ingested with success
    \* ---- the ingestion scripts (scripts/ingest_local_docs.py, scripts/ingest_remote_readmes.py)
    sc_pc,           \* "start" | "init" | "blueprint" | "loop" | "exit"
    script,          \* "local" | "remote": which script runs
    blueprint_exists,\* whether the catalog holds the 'documentation' blueprint
    fetch_records,   \* the records the fetcher's generator yields when run to its end
    ingest_calls,    \* the records passed to ingest_document, in call order
    ingested_count,  \* the local counter ingested_count
    failed_count,    \* the local counter failed_count
    sc_exit,         \* why the script ended: "" while it runs
    sc_setup,        \* what setup_blueprint returned, "True" | "False": None before its call
    \* ---- GitFetcher.fetch_readmes (fetchers/git_fetcher.py)
    g_pc,            \* "idle" | "provider" | "target" | "repo" | "done" | "raised"
    g_provider,      \* the provider branch fetch_readmes is in: 1 GitHub, 2 GitLab, 3 Azure
    g_targets,       \* how many organizations/groups/projects the branch was given
    g_target,        \* the index of the current one
    g_repos,         \* how many repositories the current one lists
    g_repo,          \* the index of the current repository
    g_listed,        \* repositories listed so far, over all providers
    g_attempts,      \* README requests made so far
    g_visited,       \* provider branches fetch_readmes has reached
    g_last,          \* the latest README attempt: provider, outcome, what it yielded and logged
    g_raised,        \* what raised out of fetch_readmes: "" when nothing did
    g_yielded,       \* the sources of the records fetch_readmes has yielded, in
                     \* order, each run of records of one source written once
    g_calls,         \* the providers a remote call was made to
    g_skipped,       \* the providers left out for an empty target list or missing credentials
    \* ---- LocalFetcher.fetch_documents (fetchers/local_fetcher.py)
    l_pc,            \* "idle" | "walk" | "done" | "raised"
    l_extensions,    \* the file_extensions argument
    l_entries,       \* how many paths base_path.rglob('*') produces
    l_index,         \* how many of them the loop has taken
    l_yielded,       \* records yielded so far
    l_errors,        \* error-severity log entries so far
    l_last,          \* the latest path taken: its name, kind, how reading went, what came of it
    \* ---- DocParser.parse (parsers/doc_parser.py)
    p_last,          \* the latest call of parse: its arguments and its result
    \* ---- the cleanup utilities (scripts/cleanup_entities.py, cleanup_entities.py)
    c_pc,            \* "idle" | "loop" | "done" | "raised"
    c_cleaner,       \* the class whose delete_all_entities runs
    c_entities,      \* the entities get_all_entities returned
    c_index,         \* how many of them the loop has taken
    c_deleted,       \* the local counter deleted_count
    c_last,          \* the latest delete_entity call: the answer to its request and its result
    \* ---- the clients and their access token (clients/port_client.py, custom_search.py)
    a_pc,            \* "start" | "ready" | "aborted"
    a_client,        \* the PortClient class that is constructed
    a_auth,          \* the answer to the access-token request
    a_constructed,   \* whether the constructor returned an object
    a_token,         \* the accessToken the client keeps for its Authorization header
    a_requests,      \* the blueprint, entity and search requests sent, with their token
    \* ---- the start of the entry points (the main() of each script)
    e_pc,            \* "start" | "auth" | "running" | "exit"
    e_entry,         \* the script that was started
    e_id,            \* os.getenv('PORT_CLIENT_ID')
    e_secret,        \* os.getenv('PORT_CLIENT_SECRET')
    e_requests,      \* the network requests the process has made
    e_exit,          \* the exit status of the process once e_pc = "exit"
    \* ---- the interactive loop (scripts/custom_search.py, custom_search.py)
    q_pc,            \* "start" | "prompt" | "ended"
    q_script,        \* the script whose loop runs
    q_prompts,       \* how many times input() was called
    q_searches,      \* how many times search_and_respond was called
    q_exit,          \* the exit status once q_pc = "ended"
    q_last,          \* the latest pass of the loop: what input() gave and what was printed
    \* ---- setup_blueprint run again and again against one catalog
    b_runs,          \* how many times setup_blueprint was called
    b_exists,        \* whether the catalog has the blueprint
    b_last,          \* the latest call: its inputs, its requests and its result
    \* ---- multi_strategy_search seen from its caller
    m_last,          \* the latest call: its arguments, the remote's answers, what it returned
    \* ---- the catalog requests of a caller that works through a list of items
    n_pc,            \* "idle" | "loop" | "done"
    n_caller,        \* "main" (the ingestion loop) | "multi_strategy_search"
    n_items,         \* the items the caller has to work through, in order
    n_log            \* for each item taken: how its request went, the requests sent, the result

searchVars == <<s_pc, query, max_results, keywords, all_results, kw_index, searches,
               direct_count, unique_results, s_caller, s_outcomes, response, r_last>>

ingestVars == <<catalog, i_last, ingested>>

scriptVars == <<sc_pc, script, blueprint_exists, fetch_records, ingest_calls,
               ingested_count, failed_count, sc_exit, sc_setup>>

gitVars == <<g_pc, g_provider, g_targets, g_target, g_repos, g_repo, g_listed,
            g_attempts, g_visited, g_last, g_raised, g_yielded, g_calls, g_skipped>>

localVars == <<l_pc, l_extensions, l_entries, l_index, l_yielded, l_errors, l_last>>

parseVars == <<p_last>>

cleanupVars == <<c_pc, c_cleaner, c_entities, c_index, c_deleted, c_last>>

authVars == <<a_pc, a_client, a_auth, a_constructed, a_token, a_requests>>

entryVars == <<e_pc, e_entry, e_id, e_secret, e_requests, e_exit>>

loopVars == <<q_pc, q_script, q_prompts, q_searches, q_exit, q_last>>

blueprintVars == <<b_runs, b_exists, b_last>>

strategyVars == <<m_last>>

callVars == <<n_pc, n_caller, n_items, n_log>>

vars == <<searchVars, ingestVars, scriptVars, gitVars, localVars, parseVars, cleanupVars, authVars, entryVars, loopVars, blueprintVars, strategyVars, callVars>>

-----------------------------------------------------------------------------
(* Bounds of the model                                                     *)

\* the most organizations, groups or projects given to one provider branch
MaxTargets == 2
\* the most repositories one organization, group or project lists
MaxRepos == 2
\* the most paths the walk of a documentation directory produces
MaxFiles == 3
\* the most times setup_blueprint is run against one catalog
MaxSetups == 3
\* the most items one caller works through
MaxItems == 3
\* the most times the interactive loop prompts
MaxPrompts == 3
\* the most requests a client sends after its construction
MaxRequests == 4
\* the most entities the cleanup finds in the blueprint
MaxCleanup == 3
\* the most results a response is built from
MaxListed == 7
\* the most records a fetcher yields in one run of a script
MaxDocs == 3
\* the longest entity list a remote search answers with
MaxEntities == 2
\* the largest max_results argument
MaxResults == 5

-----------------------------------------------------------------------------
(* Python built-ins                                                        *)

Min(a, b) == IF a <= b THEN a ELSE b
Max(a, b) == IF a >= b THEN a ELSE b

\* seq[:n], for a list or a string: a negative n counts from the end
PySliceTo(seq, n) ==
    LET stop == IF n >= 0 THEN Min(n, Len(seq)) ELSE Max(Len(seq) + n, 0)
    IN  SubSeq(seq, 1, stop)

\* Python's None, where a string may stand
None == "<None>"

RECURSIVE Repeat(_, _)
\* s * n for a string
Repeat(s, n) ==
    IF n = 0 THEN ""
    ELSE IF n % 2 = 1 THEN s \o Repeat(s, n - 1)
    ELSE LET half == Repeat(s, n \div 2) IN half \o half

\* s[i], the i-th character of a string
CharAt(s, i) == SubSeq(s, i, i)

\* the characters str.split() and str.strip() treat as whitespace
Whitespace == {" ", "\t", "\n"}

\* whether a word of s starts at position i
WordStartsAt(s, i) ==
    /\ CharAt(s, i) \notin Whitespace
    /\ (i = 1 \/ CharAt(s, i - 1) \in Whitespace)

RECURSIVE WordEnd(_, _)
\* the last position of the word that position i is in
WordEnd(s, i) ==
    IF i < Len(s) /\ CharAt(s, i + 1) \notin Whitespace THEN WordEnd(s, i + 1) ELSE i

RECURSIVE SplitRange(_, _, _)
\* the words of s that start at positions lo..hi, in order
SplitRange(s, lo, hi) ==
    IF lo > hi THEN <<>>
    ELSE IF lo = hi
    THEN (IF WordStartsAt(s, lo) THEN <<SubSeq(s, lo, WordEnd(s, lo))>> ELSE <<>>)
    ELSE LET mid == (lo + hi) \div 2
         IN  SplitRange(s, lo, mid) \o SplitRange(s, mid + 1, hi)

\* str.split() without arguments: the maximal runs of non-whitespace characters
PySplit(s) == SplitRange(s, 1, Len(s))

\* the ASCII letters, upper case and lower case at the same position
UpperLetters == [i \in 1..26 |-> CharAt("ABCDEFGHIJKLMNOPQRSTUVWXYZ", i)]
LowerLetters == [i \in 1..26 |-> CharAt("abcdefghijklmnopqrstuvwxyz", i)]

\* one character of str.lower()
LowerChar(c) ==
    LET at == { i \in 1..26 : UpperLetters[i] = c }
    IN  IF at = {} THEN c ELSE LowerLetters[CHOOSE i \in at : TRUE]

RECURSIVE PyLower(_)
\* str.lower()
PyLower(s) ==
    IF s = "" THEN ""
    ELSE IF Len(s) = 1 THEN LowerChar(s)
    ELSE LET mid == Len(s) \div 2
         IN  PyLower(SubSeq(s, 1, mid)) \o PyLower(SubSeq(s, mid + 1, Len(s)))

RECURSIVE PyReplace(_, _, _)
\* str.replace(old, new) for a one-character old
PyReplace(s, old, new) ==
    IF s = "" THEN ""
    ELSE (IF CharAt(s, 1) = old THEN new ELSE CharAt(s, 1)) \o PyReplace(Tail(s), old, new)

\* one character of str.upper()
UpperChar(c) ==
    LET at == { i \in 1..26 : LowerLetters[i] = c }
    IN  IF at = {} THEN c ELSE UpperLetters[CHOOSE i \in at : TRUE]

IsLetter(c) == \E i \in 1..26 : UpperLetters[i] = c \/ LowerLetters[i] = c

RECURSIVE TitleFrom(_, _)
\* str.title(): a letter that follows a letter is lower-cased, any other
\* letter is upper-cased
TitleFrom(s, after_letter) ==
    IF s = "" THEN ""
    ELSE LET c == CharAt(s, 1)
         IN  (IF after_letter THEN LowerChar(c) ELSE UpperChar(c))
                \o TitleFrom(Tail(s), IsLetter(c))

PyTitle(s) == TitleFrom(s, FALSE)

RECURSIVE PyLStrip(_)
PyLStrip(s) ==
    IF s # "" /\ CharAt(s, 1) \in Whitespace THEN PyLStrip(Tail(s)) ELSE s

RECURSIVE PyRStrip(_)
PyRStrip(s) ==
    IF s # "" /\ CharAt(s, Len(s)) \in Whitespace
    THEN PyRStrip(SubSeq(s, 1, Len(s) - 1))
    ELSE s

\* str.strip() without arguments
PyStrip(s) == PyRStrip(PyLStrip(s))

-----------------------------------------------------------------------------
(* The state of each component before it has done anything                 *)

\* marks an argument or a result that no call has produced yet
NoCall == [called |-> FALSE]

SearchIdle ==
    /\ s_pc = "idle"
    /\ query = ""
    /\ max_results = 0
    /\ keywords = <<>>
    /\ all_results = <<>>
    /\ kw_index = 0
    /\ searches = <<>>
    /\ direct_count = 0
    /\ unique_results = <<>>
    /\ s_caller = ""
    /\ s_outcomes = <<>>
    /\ response = <<>>
    /\ r_last = NoCall

IngestIdle ==
    /\ catalog = {}
    /\ i_last = NoCall
    /\ ingested = {}

ScriptIdle ==
    /\ sc_pc = "start"
    /\ script = ""
    /\ blueprint_exists = FALSE
    /\ fetch_records = <<>>
    /\ ingest_calls = <<>>
    /\ ingested_count = 0
    /\ failed_count = 0
    /\ sc_exit = ""
    /\ sc_setup = None

GitIdle ==
    /\ g_pc = "idle"
    /\ g_provider = 0
    /\ g_targets = 0
    /\ g_target = 0
    /\ g_repos = 0
    /\ g_repo = 0
    /\ g_listed = 0
    /\ g_attempts = 0
    /\ g_visited = 0
    /\ g_last = NoCall
    /\ g_raised = ""
    /\ g_yielded = <<>>
    /\ g_calls = {}
    /\ g_skipped = {}

LocalIdle ==
    /\ l_pc = "idle"
    /\ l_extensions = {}
    /\ l_entries = 0
    /\ l_index = 0
    /\ l_yielded = 0
    /\ l_errors = 0
    /\ l_last = NoCall

ParseIdle == p_last = NoCall

CleanupIdle ==
    /\ c_pc = "idle"
    /\ c_cleaner = ""
    /\ c_entities = <<>>
    /\ c_index = 0
    /\ c_deleted = 0
    /\ c_last = NoCall

AuthIdle ==
    /\ a_pc = "start"
    /\ a_client = ""
    /\ a_auth = ""
    /\ a_constructed = FALSE
    /\ a_token = None
    /\ a_requests = <<>>

EntryIdle ==
    /\ e_pc = "start"
    /\ e_entry = ""
    /\ e_id = None
    /\ e_secret = None
    /\ e_requests = <<>>
    /\ e_exit = 0

LoopIdle ==
    /\ q_pc = "start"
    /\ q_script = ""
    /\ q_prompts = 0
    /\ q_searches = 0
    /\ q_exit = 0
    /\ q_last = NoCall

BlueprintIdle ==
    /\ b_runs = 0
    /\ b_exists = FALSE
    /\ b_last = NoCall

StrategyIdle == m_last = NoCall

CallsIdle ==
    /\ n_pc = "idle"
    /\ n_caller = ""
    /\ n_items = <<>>
    /\ n_log = <<>>

-----------------------------------------------------------------------------
(* DocumentSearcher                                                        *)

\* the 'properties' dict of an entity; None for a key it lacks
Properties(summary, category, tags) ==
    [summary |-> summary, category |-> category, tags |-> tags]

\* An entity of a search response: a dict that may lack the 'identifier'
\* key, the 'title' key (None) and the 'properties' key (has_properties
\* false, properties None).
Entity(has_identifier, identifier, title, has_properties, properties) ==
    [has_identifier |-> has_identifier, identifier |-> identifier, title |-> title,
     has_properties |-> has_properties, properties |-> properties]

Entities ==
    { Entity(TRUE,  "a", "t1", FALSE, None),
      Entity(TRUE,  "a", "t2", FALSE, None),
      Entity(TRUE,  "b", "t1", FALSE, None),
      Entity(TRUE,  "c", "t1", FALSE, None),
      Entity(TRUE,  "d", "t1", FALSE, None),
      Entity(FALSE, "",  "t1", FALSE, None) }

EntityLists == UNION { [1..n -> Entities] : n \in 0..MaxEntities }

\* What the remote does with one POST .../entities/search.
RemoteSearchOutcomes ==
    { [kind |-> "ok", has_entities |-> TRUE, entities |-> l] : l \in EntityLists }
    \cup { [kind |-> "ok", has_entities |-> FALSE, entities |-> <<>>],
           [kind |-> "http_error", has_entities |-> FALSE, entities |-> <<>>],
           [kind |-> "exception", has_entities |-> FALSE, entities |-> <<>>] }

\* the answers met while search_and_respond runs: a few result lists and
\* both kinds of failure
BotSearchOutcomes ==
    { o \in RemoteSearchOutcomes :
        o.kind = "ok" =>
            /\ o.has_entities
            /\ \A i \in DOMAIN o.entities :
                  o.entities[i].title = "t1" /\ o.entities[i].identifier \in {"a", "b"}
            /\ \A i, j \in DOMAIN o.entities :
                  i < j => o.entities[i].identifier # o.entities[j].identifier
            /\ Len(o.entities) <= 2 }

Queries == { "", "docs", "api docs", " how to\t", "port api guide setup" }

\* search_entities with an error status taken for an empty answer
SearchEntitiesStatusIgnored(outcome) ==
    IF outcome.kind \in {"ok", "http_error"}
    THEN [ok |-> TRUE,
          entities |-> IF outcome.has_entities THEN outcome.entities ELSE <<>>,
          error |-> ""]
    ELSE [ok |-> FALSE, entities |-> <<>>, error |-> outcome.kind]

\* search_entities: the dict it returns for one outcome of the request
SearchEntities(outcome) ==
    IF outcome.kind = "ok"
    THEN [ok |-> TRUE,
          entities |-> IF outcome.has_entities THEN outcome.entities ELSE <<>>,
          error |-> ""]
    ELSE [ok |-> FALSE, entities |-> <<>>, error |-> outcome.kind]

\* the key of the deduplication with the title standing in for a missing identifier
GetIdentifierOrTitle(result) == IF result.has_identifier THEN result.identifier ELSE result.title

\* result.get('identifier', '')
GetIdentifier(result) == IF result.has_identifier THEN result.identifier ELSE ""

RECURSIVE DedupLoopKeepLast(_, _, _, _)
\* the loop with the slip of letting a later occurrence replace the one already kept
DedupLoopKeepLast(results, i, seen_identifiers, unique) ==
    IF i > Len(results) THEN unique
    ELSE LET identifier == GetIdentifier(results[i])
             others == SelectSeq(unique, LAMBDA u : GetIdentifier(u) # identifier)
         IN  DedupLoopKeepLast(results, i + 1, seen_identifiers \cup {identifier},
                               Append(others, results[i]))

RECURSIVE DedupLoop(_, _, _, _)
\* the loop over all_results that fills seen_identifiers and unique_results
DedupLoop(results, i, seen_identifiers, unique) ==
    IF i > Len(results) THEN unique
    ELSE LET identifier == GetIdentifier(results[i])
         IN  IF identifier \notin seen_identifiers
             THEN DedupLoop(results, i + 1, seen_identifiers \cup {identifier},
                            Append(unique, results[i]))
             ELSE DedupLoop(results, i + 1, seen_identifiers, unique)

\* the tail with the slip of returning unique_results uncut
DedupNoTruncate(results, m) == DedupLoop(results, 1, {}, <<>>)

\* the tail of multi_strategy_search: deduplicate, then unique_results[:max_results]
DedupAndTruncate(results, m) == PySliceTo(DedupLoop(results, 1, {}, <<>>), m)

\* the part the direct search contributes, cut like that of a keyword search
DirectSliceQuarter(res, m) == IF res.ok THEN PySliceTo(res.entities, m \div 4) ELSE <<>>

\* the part of all_results one search contributes
DirectSlice(res, m) == IF res.ok THEN PySliceTo(res.entities, m \div 2) ELSE <<>>
\* the part a keyword search contributes, cut like that of the direct search
KeywordSliceHalf(res, m) == IF res.ok THEN PySliceTo(res.entities, m \div 2) ELSE <<>>

KeywordSlice(res, m) == IF res.ok THEN PySliceTo(res.entities, m \div 4) ELSE <<>>

\* the first token at or after position i that the keyword loop searches for, or 0
RECURSIVE NextKeyword(_, _)
NextKeyword(kws, i) ==
    IF Len(kws) <= 1 \/ i > Len(kws) THEN 0
    ELSE IF Len(kws[i]) > 3 THEN i ELSE NextKeyword(kws, i + 1)

\* the default of max_results
DEFAULT_MAX_RESULTS == 10

\* one part of a response text: its heading line, a numbered entry, the line
\* about further results, or the whole text for no results
Part(part, number, title, category, summary) ==
    [part |-> part, number |-> number, title |-> title, category |-> category,
     summary |-> summary]

\* _no_results_response
NoResultsResponse(q) == << Part("no_results", 0, q, None, None) >>

\* summary[:250] and the dots that follow a longer summary
SummaryShown(summary) ==
    SubSeq(summary, 1, Min(250, Len(summary)))
        \o (IF Len(summary) > 250 THEN "..." ELSE "")

\* the entry of the numbered list for results[i]
ResponseEntry(i, result) ==
    LET title == IF result.title = None THEN "Untitled" ELSE result.title
        summary == IF result.has_properties /\ result.properties.summary # None
                   THEN result.properties.summary ELSE "No summary available."
        category == IF result.has_properties /\ result.properties.category # None
                    THEN result.properties.category ELSE "General"
    IN  Part("entry", i, title, category, SummaryShown(summary))

\* _build_response_from_results: the heading, an entry for each of
\* results[:5], and a line counting the rest when there are more than 5
BuildResponseFromResults(q, results) ==
    << Part("header", 0, q, None, None) >>
        \o [i \in 1..Min(5, Len(results)) |-> ResponseEntry(i, results[i])]
        \o (IF Len(results) > 5
            THEN << Part("overflow", Len(results) - 5, None, None, None) >>
            ELSE <<>>)

\* search_and_respond once multi_strategy_search has returned results
RespondTo(q, results) ==
    IF results = <<>> THEN NoResultsResponse(q) ELSE BuildResponseFromResults(q, results)

\* what the caller has in hand when multi_strategy_search returns
ResponseOf(caller, q, results) ==
    IF caller = "bot" THEN RespondTo(q, results) ELSE <<>>

\* the record of one search_entities call: whether the request failed, the
\* 'ok' of the returned dict, whether it has an 'error', and how many
\* entities the call added to all_results
SearchOutcome(outcome, results, added) ==
    [failed |-> outcome.kind # "ok", ok |-> results.ok,
     has_error |-> results.error # "", added |-> Len(added)]

\* the calls of search_entities are recorded while search_and_respond runs
Observed(caller, outcomes, outcome) ==
    IF caller = "bot" THEN Append(outcomes, outcome) ELSE outcomes

\* the answers the remote may give to the searches of one call
SearchOutcomesFor(caller) ==
    IF caller = "bot" THEN BotSearchOutcomes ELSE RemoteSearchOutcomes

\* a caller invokes multi_strategy_search(q, m), or search_and_respond(q),
\* which invokes it with the default max_results
SearchCall ==
    /\ UNCHANGED <<ingestVars, scriptVars, gitVars, localVars, parseVars, cleanupVars, authVars, entryVars, loopVars, blueprintVars, strategyVars, callVars>>
    /\ s_pc = "idle"
    /\ \E q \in Queries, caller \in {"searcher", "bot"} :
          \E m \in IF caller = "bot" THEN {DEFAULT_MAX_RESULTS} ELSE 0..MaxResults :
              /\ query' = q
              /\ max_results' = m
              /\ s_caller' = caller
              /\ keywords' = PySplit(q)
    /\ s_outcomes' = <<>>
    /\ response' = <<>>
    /\ UNCHANGED r_last
    /\ all_results' = <<>>
    /\ kw_index' = 0
    /\ searches' = <<>>
    /\ direct_count' = 0
    /\ unique_results' = <<>>
    /\ s_pc' = "direct"

\* strategy 1: the direct search; the dedup and return follow when no keyword search does
DirectSearch ==
    /\ UNCHANGED <<ingestVars, scriptVars, gitVars, localVars, parseVars, cleanupVars, authVars, entryVars, loopVars, blueprintVars, strategyVars, callVars>>
    /\ s_pc = "direct"
    /\ \E outcome \in SearchOutcomesFor(s_caller), nxt \in {NextKeyword(keywords, 1)} :
          LET results == SearchEntities(outcome)
              all == all_results \o DirectSlice(results, max_results)
          IN  /\ all_results' = all
              /\ s_outcomes' = Observed(s_caller, s_outcomes,
                    SearchOutcome(outcome, results, DirectSlice(results, max_results)))
              /\ response' = IF nxt = 0
                             THEN ResponseOf(s_caller, query,
                                             DedupAndTruncate(all, max_results))
                             ELSE response
              /\ direct_count' = Len(all)
              /\ searches' = Append(searches, query)
              /\ IF nxt = 0
                 THEN /\ unique_results' = DedupAndTruncate(all, max_results)
                      /\ kw_index' = Len(keywords)
                      /\ s_pc' = "done"
                 ELSE /\ unique_results' = unique_results
                      /\ kw_index' = nxt - 1
                      /\ s_pc' = "keyword"
    /\ UNCHANGED <<query, max_results, keywords, s_caller, r_last>>

\* strategy 2: the search for the next token longer than 3 characters
KeywordSearch ==
    /\ UNCHANGED <<ingestVars, scriptVars, gitVars, localVars, parseVars, cleanupVars, authVars, entryVars, loopVars, blueprintVars, strategyVars, callVars>>
    /\ s_pc = "keyword"
    /\ \E outcome \in SearchOutcomesFor(s_caller), k \in {NextKeyword(keywords, kw_index + 1)} :
          LET keyword_results == SearchEntities(outcome)
              all == all_results \o KeywordSlice(keyword_results, max_results)
              nxt == NextKeyword(keywords, k + 1)
          IN  /\ all_results' = all
              /\ s_outcomes' = Observed(s_caller, s_outcomes,
                    SearchOutcome(outcome, keyword_results,
                                  KeywordSlice(keyword_results, max_results)))
              /\ response' = IF nxt = 0
                             THEN ResponseOf(s_caller, query,
                                             DedupAndTruncate(all, max_results))
                             ELSE response
              /\ searches' = Append(searches, keywords[k])
              /\ IF nxt = 0
                 THEN /\ unique_results' = DedupAndTruncate(all, max_results)
                      /\ kw_index' = Len(keywords)
                      /\ s_pc' = "done"
                 ELSE /\ unique_results' = unique_results
                      /\ kw_index' = k
                      /\ s_pc' = "keyword"
    /\ UNCHANGED <<query, max_results, keywords, direct_count, s_caller, r_last>>

\* the caller takes the returned list; the searcher keeps nothing between calls
SearchReturn ==
    /\ UNCHANGED <<ingestVars, scriptVars, gitVars, localVars, parseVars, cleanupVars, authVars, entryVars, loopVars, blueprintVars, strategyVars, callVars>>
    /\ s_pc = "done"
    /\ s_pc' = "idle"
    /\ query' = ""
    /\ max_results' = 0
    /\ keywords' = <<>>
    /\ all_results' = <<>>
    /\ kw_index' = 0
    /\ searches' = <<>>
    /\ direct_count' = 0
    /\ unique_results' = <<>>
    /\ s_caller' = ""
    /\ s_outcomes' = <<>>
    /\ response' = <<>>
    /\ UNCHANGED r_last

\* entities as the catalog returns them, with and without a title, a
\* properties dict, a summary, a category and tags
ResultPool ==
    << Entity(TRUE, "p1", "Install Guide", TRUE,
              Properties("How to install.", "Guide", <<"docker">>)),
       Entity(TRUE, "p2", None, TRUE, Properties(None, None, <<>>)),
       Entity(TRUE, "p3", "REST API", TRUE,
              Properties(Repeat("s", 251), "API Reference", <<"api", "rest">>)),
       Entity(TRUE, "p4", "Bare", FALSE, None),
       Entity(TRUE, "p5", "Exactly 250", TRUE,
              Properties(Repeat("s", 250), "Guide", <<"docker", "aws">>)),
       Entity(TRUE, "p6", "Concepts", TRUE, Properties("Short.", "Concept", <<>>)),
       Entity(TRUE, "p7", "Webhooks", TRUE, Properties("", None, <<"webhook">>)),
       Entity(TRUE, "p8", "Examples", TRUE, Properties("Try it.", "Example", <<>>)),
       Entity(TRUE, "p9", "Azure", TRUE, Properties("On Azure.", "Guide", <<"azure">>)) >>

\* a list multi_strategy_search may return: n entities, no identifier twice
ResultList(start, n) ==
    [i \in 1..n |-> ResultPool[((start + i - 2) % Len(ResultPool)) + 1]]

\* search_and_respond(q), for a list of results that multi_strategy_search
\* returns to it
SearchAndRespond ==
    /\ UNCHANGED <<ingestVars, scriptVars, gitVars, localVars, parseVars, cleanupVars, authVars, entryVars, loopVars, blueprintVars, strategyVars, callVars>>
    /\ s_pc = "idle"
    /\ \E q \in Queries, start \in 1..Len(ResultPool),
          n \in 0..Min(MaxListed, Len(ResultPool)) :
          r_last' = [called |-> TRUE, query |-> q, results |-> ResultList(start, n),
                     response |-> RespondTo(q, ResultList(start, n))]
    /\ UNCHANGED <<s_pc, query, max_results, keywords, all_results, kw_index, searches,
                   direct_count, unique_results, s_caller, s_outcomes, response>>

InitRespond == SearchIdle /\ IngestIdle /\ ScriptIdle /\ GitIdle /\ LocalIdle /\ ParseIdle /\ CleanupIdle /\ AuthIdle /\ EntryIdle /\ LoopIdle /\ BlueprintIdle /\ StrategyIdle /\ CallsIdle

NextRespond == SearchAndRespond

SpecRespond == InitRespond /\ [][NextRespond]_vars

InitSearch == SearchIdle /\ IngestIdle /\ ScriptIdle /\ GitIdle /\ LocalIdle /\ ParseIdle /\ CleanupIdle /\ AuthIdle /\ EntryIdle /\ LoopIdle /\ BlueprintIdle /\ StrategyIdle /\ CallsIdle

NextSearch == SearchCall \/ DirectSearch \/ KeywordSearch \/ SearchReturn

SpecSearch == InitSearch /\ [][NextSearch]_vars

-----------------------------------------------------------------------------
(* Properties of multi_strategy_search                                     *)

\* the positions of seq that hold the first occurrence of their identifier
FirstOccurrences(seq) ==
    { i \in 1..Len(seq) :
        \A j \in 1..(i - 1) : GetIdentifier(seq[j]) # GetIdentifier(seq[i]) }

\* the entries of seq at the positions in S, in their order in seq
Restrict(seq, S) ==
    [k \in 1..Cardinality(S) |->
        seq[CHOOSE i \in S : Cardinality({j \in S : j <= i}) = k]]

\* C1: for every query and every max_results >= 0, whatever the remote
\* searches return, the list multi_strategy_search returns has at most
\* max_results entries and no two of them have the same identifier.
C1_AtMostMaxResultsNoDuplicates ==
    (s_pc = "done" /\ max_results >= 0) =>
        /\ Len(unique_results) <= max_results
        /\ \A i, j \in 1..Len(unique_results) :
              i # j => GetIdentifier(unique_results[i]) # GetIdentifier(unique_results[j])

\* C1 witness: a finished search that collected more distinct entities than
\* max_results and returned exactly max_results of them.
C1_Witness ==
    /\ s_pc = "done"
    /\ max_results > 0
    /\ Cardinality(FirstOccurrences(all_results)) > max_results
    /\ Len(unique_results) = max_results

\* C2: the returned list is the concatenation of the direct slice and the
\* keyword slices (all_results) with every later occurrence of an identifier
\* removed, order kept, cut to the first max_results entries; an entity of
\* the direct slice is returned once, as the direct search gave it and at
\* the position it has among the direct results.
C2_FirstOccurrenceOrderKept ==
    s_pc = "done" =>
        /\ unique_results =
              PySliceTo(Restrict(all_results, FirstOccurrences(all_results)), max_results)
        /\ \A i \in 1..direct_count :
              LET first == CHOOSE j \in FirstOccurrences(all_results) :
                              GetIdentifier(all_results[j]) = GetIdentifier(all_results[i])
                  pos == Cardinality({j \in FirstOccurrences(all_results) : j <= first})
              IN  /\ first <= direct_count
                  /\ pos <= Len(unique_results)
                  /\ unique_results[pos] = all_results[first]
                  /\ \A p \in 1..Len(unique_results) :
                        GetIdentifier(unique_results[p]) = GetIdentifier(all_results[i])
                            => p = pos

\* C2 witness: a finished search in which a keyword search returned, with
\* another title, an entity the direct search had returned, and the direct
\* one was kept.
C2_Witness ==
    /\ s_pc = "done"
    /\ direct_count >= 1
    /\ \E i \in 1..direct_count, j \in (direct_count + 1)..Len(all_results) :
          /\ GetIdentifier(all_results[j]) = GetIdentifier(all_results[i])
          /\ all_results[j] # all_results[i]
          /\ \E p \in 1..Len(unique_results) : unique_results[p] = all_results[i]
    /\ Len(unique_results) < Len(all_results)

-----------------------------------------------------------------------------
(* DocumentIngester and PortClient.create_entity                           *)

BLUEPRINT_ID == "documentation"

\* the DocMetadata a fetcher builds; repository_url is set for remote sources only
DocMetadata(source, file_path, title, summary) ==
    [cls |-> "DocMetadata", source |-> source, file_path |-> file_path,
     title |-> title, summary |-> summary,
     repository_url |-> IF source = "local" THEN None ELSE "https://" \o source]

\* The documents given to ingest_document: two files of one directory whose
\* names differ in case and in space against hyphen, one of them in two
\* versions, and a file of the same name from another source.
DocMetadatas ==
    { DocMetadata("local", "My Doc.md", "T1", None),
      DocMetadata("local", "my-doc.md", "T1", "S"),
      DocMetadata("local", "my-doc.md", "T2", None),
      DocMetadata("github", "my-doc.md", "T1", "S") }

\* an argument of ingest_document that is no DocMetadata
NotDocMetadata ==
    [cls |-> "dict", source |-> "local", file_path |-> "my-doc.md",
     title |-> "T1", summary |-> None, repository_url |-> None]

\* f"{source}/{file_path}".lower().replace(" ", "-")
EntityIdentifier(source, file_path) ==
    PyReplace(PyLower(source \o "/" \o file_path), " ", "-")

\* _construct_entity_payload: the entity dict, its properties without the None values
ConstructEntityPayload(doc_metadata) ==
    LET properties == [k \in {"source", "filePath", "summary", "repositoryUrl"} |->
                          CASE k = "source" -> doc_metadata.source
                            [] k = "filePath" -> doc_metadata.file_path
                            [] k = "summary" -> doc_metadata.summary
                            [] k = "repositoryUrl" -> doc_metadata.repository_url]
        valid_keys == { k \in DOMAIN properties : properties[k] # None }
    IN  [identifier |-> EntityIdentifier(doc_metadata.source, doc_metadata.file_path),
         title |-> doc_metadata.title,
         properties |-> [k \in valid_keys |-> properties[k]]]

\* what can become of one request to the catalog
RequestOutcomes == { "processed", "http_error", "connection_error", "timeout" }

\* The catalog's POST /v1/blueprints/{id}/entities: with upsert an entity of the
\* same identifier is replaced (its properties merged under merge), without it
\* the request is refused as a conflict.
CatalogPostEntity(cat, entity_data, params) ==
    LET existing == { e \in cat : e.identifier = entity_data.identifier }
        merged(e) ==
            [identifier |-> entity_data.identifier,
             title |-> entity_data.title,
             properties |->
                 [k \in DOMAIN e.properties \cup DOMAIN entity_data.properties |->
                     IF k \in DOMAIN entity_data.properties
                     THEN entity_data.properties[k] ELSE e.properties[k]]]
    IN  IF existing = {}
        THEN [catalog |-> cat \cup {entity_data}, status |-> 201]
        ELSE IF ~params.upsert
        THEN [catalog |-> cat, status |-> 409]
        ELSE IF params.merge
        THEN [catalog |-> (cat \ existing) \cup { merged(e) : e \in existing }, status |-> 200]
        ELSE [catalog |-> (cat \ existing) \cup {entity_data}, status |-> 200]

\* the result of a call: a returned value or a raised exception
Return(v) == [kind |-> "return", value |-> v, exc |-> ""]
Raise(e) == [kind |-> "raise", value |-> FALSE, exc |-> e]

\* create_entity sent as a plain create, without the upsert parameters
CreateEntityNoUpsert(cat, entity_data, outcome, applied) ==
    LET params == [upsert |-> FALSE, merge |-> FALSE]
        answer == CatalogPostEntity(cat, entity_data, params)
    IN  CASE outcome = "processed" ->
                IF answer.status < 400
                THEN [result |-> Return(TRUE), catalog |-> answer.catalog]
                ELSE [result |-> Return(FALSE), catalog |-> answer.catalog]
          [] outcome = "http_error" -> [result |-> Return(FALSE), catalog |-> cat]
          [] outcome = "connection_error" ->
                [result |-> Raise("ConnectionError"), catalog |-> cat]
          [] outcome = "timeout" ->
                [result |-> Raise("Timeout"),
                 catalog |-> IF applied THEN answer.catalog ELSE cat]

\* PortClient.create_entity: one POST with upsert=true&merge=true. raise_for_status
\* turns an error status into HTTPError, which is caught; any other exception of
\* the request is not.  A request that timed out may have been applied or not.
CreateEntity(cat, entity_data, outcome, applied) ==
    LET params == [upsert |-> TRUE, merge |-> TRUE]
        answer == CatalogPostEntity(cat, entity_data, params)
    IN  CASE outcome = "processed" ->
                IF answer.status < 400
                THEN [result |-> Return(TRUE), catalog |-> answer.catalog]
                ELSE [result |-> Return(FALSE), catalog |-> answer.catalog]
          [] outcome = "http_error" -> [result |-> Return(FALSE), catalog |-> cat]
          [] outcome = "connection_error" ->
                [result |-> Raise("ConnectionError"), catalog |-> cat]
          [] outcome = "timeout" ->
                [result |-> Raise("Timeout"),
                 catalog |-> IF applied THEN answer.catalog ELSE cat]

\* ingest_document without its except clause
IngestDocumentNoExcept(cat, doc_metadata, outcome, applied) ==
    IF doc_metadata.cls # "DocMetadata"
    THEN [result |-> Return(FALSE), catalog |-> cat]
    ELSE CreateEntity(cat, ConstructEntityPayload(doc_metadata), outcome, applied)

\* DocumentIngester.ingest_document: False for an argument that is no DocMetadata
\* and for any exception of the payload construction or of create_entity
IngestDocument(cat, doc_metadata, outcome, applied) ==
    IF doc_metadata.cls # "DocMetadata"
    THEN [result |-> Return(FALSE), catalog |-> cat]
    ELSE LET sent == CreateEntity(cat, ConstructEntityPayload(doc_metadata), outcome, applied)
         IN  IF sent.result.kind = "raise"
             THEN [result |-> Return(FALSE), catalog |-> sent.catalog]
             ELSE sent

\* some caller invokes ingest_document(arg) and the request ends one way or another
IngestDocumentCall ==
    /\ UNCHANGED <<searchVars, scriptVars, gitVars, localVars, parseVars, cleanupVars, authVars, entryVars, loopVars, blueprintVars, strategyVars, callVars>>
    /\ \E arg \in DocMetadatas \cup {NotDocMetadata}, outcome \in RequestOutcomes,
          applied \in BOOLEAN :
          LET done == IngestDocument(catalog, arg, outcome, applied)
          IN  /\ outcome # "timeout" => applied
              /\ catalog' = done.catalog
              /\ i_last' = [called |-> TRUE, arg |-> arg, outcome |-> outcome,
                            result |-> done.result]
              /\ ingested' =
                    IF done.result = Return(TRUE)
                    THEN ingested \cup
                           { [source |-> arg.source, file_path |-> arg.file_path,
                              identifier |-> EntityIdentifier(arg.source, arg.file_path)] }
                    ELSE ingested

InitIngest == SearchIdle /\ IngestIdle /\ ScriptIdle /\ GitIdle /\ LocalIdle /\ ParseIdle /\ CleanupIdle /\ AuthIdle /\ EntryIdle /\ LoopIdle /\ BlueprintIdle /\ StrategyIdle /\ CallsIdle

NextIngest == IngestDocumentCall

SpecIngest == InitIngest /\ [][NextIngest]_vars

-----------------------------------------------------------------------------
(* Properties of the ingester                                              *)

\* C3: two distinct (source, file_path) pairs never get the same entity
\* identifier: among the documents ingested, equal identifiers mean equal
\* source and equal file_path.
C3_DistinctPairsDistinctIdentifiers ==
    \A x, y \in ingested :
        x.identifier = y.identifier =>
            (x.source = y.source /\ x.file_path = y.file_path)

\* C4: ingestion is an idempotent upsert: the catalog never holds two entities
\* of one identifier, every document ingested with success has its entity, the
\* entity of the document just ingested carries its title and properties, and
\* ingesting that document once more succeeds and leaves the catalog as it is.
C4_IdempotentUpsert ==
    /\ \A e1, e2 \in catalog : e1.identifier = e2.identifier => e1 = e2
    /\ \A x \in ingested : \E e \in catalog : e.identifier = x.identifier
    /\ (i_last.called /\ i_last.result = Return(TRUE)) =>
          LET payload == ConstructEntityPayload(i_last.arg)
              again == IngestDocument(catalog, i_last.arg, "processed", TRUE)
          IN  /\ \E e \in catalog :
                    /\ e.identifier = payload.identifier
                    /\ e.title = payload.title
                    /\ \A k \in DOMAIN payload.properties :
                          /\ k \in DOMAIN e.properties
                          /\ e.properties[k] = payload.properties[k]
              /\ again.result = Return(TRUE)
              /\ again.catalog = catalog

\* C4 witness: a document was ingested over an earlier version of itself: its
\* entity has the new title and still has the summary only the old one had.
C4_Witness ==
    /\ i_last.called
    /\ i_last.result = Return(TRUE)
    /\ i_last.arg.title = "T2"
    /\ i_last.arg.summary = None
    /\ \E e \in catalog :
          /\ e.identifier = EntityIdentifier(i_last.arg.source, i_last.arg.file_path)
          /\ e.title = "T2"
          /\ "summary" \in DOMAIN e.properties
    /\ Cardinality(catalog) = 2
    /\ Cardinality(ingested) = 3

\* C5: ingest_document never raises; it returns False when its argument is no
\* DocMetadata and when the request ends in an error status, a connection
\* error or a timeout, and True only when the upsert request succeeded.
C5_IngestNeverRaises ==
    i_last.called =>
        /\ i_last.result.kind = "return"
        /\ (i_last.arg.cls # "DocMetadata" \/ i_last.outcome # "processed")
              => i_last.result.value = FALSE
        /\ i_last.result.value = TRUE
              => (i_last.arg.cls = "DocMetadata" /\ i_last.outcome = "processed")

\* C5 witness: a call whose request met a connection error returned False.
C5_Witness ==
    /\ i_last.called
    /\ i_last.arg.cls = "DocMetadata"
    /\ i_last.outcome = "connection_error"
    /\ i_last.result = Return(FALSE)

-----------------------------------------------------------------------------
(* The ingestion scripts: scripts/ingest_local_docs.py and                  *)
(* scripts/ingest_remote_readmes.py                                         *)

\* create_blueprint with the write always a POST to /v1/blueprints
CreateBlueprintAlwaysPost(exists, check, write) ==
    IF check \in {"connection_error", "timeout"}
    THEN [result |-> FALSE, exists |-> exists, requests |-> <<"GET">>]
    ELSE IF write = "processed" /\ ~ exists
         THEN [result |-> TRUE, exists |-> TRUE, requests |-> <<"GET", "POST">>]
         ELSE [result |-> FALSE, exists |-> exists, requests |-> <<"GET", "POST">>]

\* PortClient.create_blueprint: one GET, then PUT when it answered 200 and POST
\* otherwise; every RequestException, an error status of the write included,
\* gives False.  The catalog refuses to create a blueprint it already has.
\* requests are the methods of the requests made, in order.
CreateBlueprint(exists, check, write) ==
    IF check \in {"connection_error", "timeout"}
    THEN [result |-> FALSE, exists |-> exists, requests |-> <<"GET">>]
    ELSE LET status == IF check = "processed" /\ exists THEN 200
                       ELSE IF check = "processed" THEN 404 ELSE 500
             method == IF status = 200 THEN "PUT" ELSE "POST"
         IN  IF write = "processed" /\ ~(method = "POST" /\ exists)
             THEN [result |-> TRUE, exists |-> TRUE, requests |-> <<"GET", method>>]
             ELSE [result |-> FALSE, exists |-> exists, requests |-> <<"GET", method>>]

\* what open() and json.load() make of the blueprint definition file: an
\* object with the identifier 'documentation' or with another one, no file,
\* a text that is no JSON, a JSON value that is no object
BlueprintFiles == { "ok", "other_identifier", "missing", "invalid_json", "not_object" }

\* DocumentIngester.setup_blueprint: False without a readable definition
\* (every exception is caught), else the result of create_blueprint for the
\* definition with its identifier set to BLUEPRINT_ID
SetupBlueprint(file, exists, check, write) ==
    IF file \notin {"ok", "other_identifier"}
    THEN [result |-> FALSE, exists |-> exists, requests |-> <<>>]
    ELSE CreateBlueprint(exists, check, write)

\* the exit status of the process for each way a script ends
ExitStatus(reason) == IF reason = "summary" THEN 0 ELSE 1

\* the for loop with the slip of leaving it at the first False
AfterIngestBreakOnFalse(ok) == IF ok THEN "loop" ELSE "summary"

\* where the for loop goes after one ingest_document result: to the next record
AfterIngest(ok) == "loop"

\* the script going on to its loop whatever setup_blueprint returned
AfterSetupBlueprintGoOn(result) == "loop"

\* where main() goes after setup_blueprint: on to the fetcher's loop, or to
\* sys.exit(1) when it returned False
AfterSetupBlueprint(result) == IF result THEN "loop" ELSE "exit"

\* main() up to the credential check (and load_config in the remote script)
ScriptStart ==
    /\ UNCHANGED <<searchVars, ingestVars, gitVars, localVars, parseVars, cleanupVars, authVars, entryVars, loopVars, blueprintVars, strategyVars, callVars>>
    /\ sc_pc = "start"
    /\ \E which \in {"local", "remote"}, credentials \in BOOLEAN,
          config \in {"ok", "missing", "invalid"} :
          /\ which = "local" => config = "ok"
          /\ script' = which
          /\ IF ~credentials
             THEN sc_pc' = "exit" /\ sc_exit' = "no_credentials"
             ELSE IF config # "ok"
             THEN sc_pc' = "exit" /\ sc_exit' = "no_config"
             ELSE sc_pc' = "init" /\ sc_exit' = ""
    /\ UNCHANGED <<blueprint_exists, fetch_records, ingest_calls, ingested_count,
                   failed_count, sc_setup>>

\* PortClient(...): the authentication request; its failure is raised and ends main()
ScriptInit ==
    /\ UNCHANGED <<searchVars, ingestVars, gitVars, localVars, parseVars, cleanupVars, authVars, entryVars, loopVars, blueprintVars, strategyVars, callVars>>
    /\ sc_pc = "init"
    /\ \E auth \in RequestOutcomes, exists \in BOOLEAN :
          /\ blueprint_exists' = exists
          /\ IF auth = "processed"
             THEN sc_pc' = "blueprint" /\ sc_exit' = ""
             ELSE sc_pc' = "exit" /\ sc_exit' = "auth_failed"
    /\ UNCHANGED <<script, fetch_records, ingest_calls, ingested_count, failed_count,
                   sc_setup>>

\* ingester.setup_blueprint(): False ends the script with sys.exit(1); True
\* creates the fetcher's generator
ScriptSetupBlueprint ==
    /\ UNCHANGED <<searchVars, ingestVars, gitVars, localVars, parseVars, cleanupVars, authVars, entryVars, loopVars, blueprintVars, strategyVars, callVars>>
    /\ sc_pc = "blueprint"
    /\ \E file \in BlueprintFiles, check \in RequestOutcomes, write \in RequestOutcomes,
          n \in 0..MaxDocs :
        \E records \in [1..n -> DocMetadatas] :
          LET setup == SetupBlueprint(file, blueprint_exists, check, write)
          IN  /\ blueprint_exists' = setup.exists
              /\ sc_setup' = IF setup.result THEN "True" ELSE "False"
              /\ IF AfterSetupBlueprint(setup.result) = "loop"
                 THEN /\ sc_pc' = "loop"
                      /\ sc_exit' = ""
                      /\ fetch_records' = records
                 ELSE /\ sc_pc' = "exit"
                      /\ sc_exit' = "blueprint_failed"
                      /\ fetch_records' = fetch_records
    /\ UNCHANGED <<script, ingest_calls, ingested_count, failed_count>>

\* one iteration of the for loop: the generator yields its next record,
\* ingest_document is called with it and one of the counters is incremented
ScriptLoopIteration ==
    /\ UNCHANGED <<searchVars, gitVars, localVars, parseVars, cleanupVars, authVars, entryVars, loopVars, blueprintVars, strategyVars, callVars>>
    /\ sc_pc = "loop"
    /\ Len(ingest_calls) < Len(fetch_records)
    /\ \E outcome \in RequestOutcomes, applied \in BOOLEAN :
          LET doc_metadata == fetch_records[Len(ingest_calls) + 1]
              done == IngestDocument(catalog, doc_metadata, outcome, applied)
              ok == done.result = Return(TRUE)
              next_pc == AfterIngest(ok)
          IN  /\ outcome # "timeout" => applied
              /\ catalog' = done.catalog
              /\ i_last' = [called |-> TRUE, arg |-> doc_metadata, outcome |-> outcome,
                            result |-> done.result]
              /\ ingested' =
                    IF ok
                    THEN ingested \cup
                           { [source |-> doc_metadata.source,
                              file_path |-> doc_metadata.file_path,
                              identifier |-> EntityIdentifier(doc_metadata.source,
                                                              doc_metadata.file_path)] }
                    ELSE ingested
              /\ ingest_calls' = Append(ingest_calls, doc_metadata)
              /\ ingested_count' = IF ok THEN ingested_count + 1 ELSE ingested_count
              /\ failed_count' = IF ok THEN failed_count ELSE failed_count + 1
              /\ IF next_pc = "loop"
                 THEN sc_pc' = "loop" /\ sc_exit' = ""
                 ELSE sc_pc' = "exit" /\ sc_exit' = "summary"
    /\ UNCHANGED <<script, blueprint_exists, fetch_records, sc_setup>>

\* the generator is exhausted: the summary is logged and main() returns
ScriptLoopEnd ==
    /\ UNCHANGED <<searchVars, ingestVars, gitVars, localVars, parseVars, cleanupVars, authVars, entryVars, loopVars, blueprintVars, strategyVars, callVars>>
    /\ sc_pc = "loop"
    /\ Len(ingest_calls) = Len(fetch_records)
    /\ sc_pc' = "exit"
    /\ sc_exit' = "summary"
    /\ UNCHANGED <<script, blueprint_exists, fetch_records, ingest_calls,
                   ingested_count, failed_count, sc_setup>>

\* the generator raises outside its per-item handlers (the provider connection,
\* the directory walk): the records it had left are never yielded, main()'s
\* except clause logs and exits with status 1
ScriptFetcherRaises ==
    /\ UNCHANGED <<searchVars, ingestVars, gitVars, localVars, parseVars, cleanupVars, authVars, entryVars, loopVars, blueprintVars, strategyVars, callVars>>
    /\ sc_pc = "loop"
    /\ Len(ingest_calls) < Len(fetch_records)
    /\ fetch_records' = ingest_calls
    /\ sc_pc' = "exit"
    /\ sc_exit' = "fetcher_error"
    /\ UNCHANGED <<script, blueprint_exists, ingest_calls, ingested_count, failed_count,
                   sc_setup>>

InitScript == SearchIdle /\ IngestIdle /\ ScriptIdle /\ GitIdle /\ LocalIdle /\ ParseIdle /\ CleanupIdle /\ AuthIdle /\ EntryIdle /\ LoopIdle /\ BlueprintIdle /\ StrategyIdle /\ CallsIdle

NextScript ==
    \/ ScriptStart
    \/ ScriptInit
    \/ ScriptSetupBlueprint
    \/ ScriptLoopIteration
    \/ ScriptLoopEnd
    \/ ScriptFetcherRaises

SpecScript == InitScript /\ [][NextScript]_vars

\* C6: in both scripts, once setup_blueprint has succeeded every record the
\* fetcher yields is passed to ingest_document exactly once and in yield
\* order, a False result does not end the loop (the script ends with status 0
\* only after the last record), and ingested_count + failed_count is the
\* number of records yielded.
C6_EveryRecordIngestedOnce ==
    /\ sc_pc \in {"start", "init", "blueprint"} => ingest_calls = <<>>
    /\ Len(ingest_calls) <= Len(fetch_records)
    /\ ingest_calls = SubSeq(fetch_records, 1, Len(ingest_calls))
    /\ ingested_count + failed_count = Len(ingest_calls)
    /\ (sc_pc = "exit" /\ sc_exit \in {"summary", "fetcher_error"}) =>
          /\ ingest_calls = fetch_records
          /\ ingested_count + failed_count = Len(fetch_records)

\* C6 witness: a script ended with its summary after a failed ingest that was
\* followed by a successful one.
C6_Witness ==
    /\ sc_pc = "exit"
    /\ sc_exit = "summary"
    /\ Len(fetch_records) = 3
    /\ failed_count = 2
    /\ ingested_count = 1
    /\ i_last.result = Return(TRUE)

\* C28: in both ingestion scripts ingest_document is reached, and so an entity
\* upsert sent, only after setup_blueprint returned True in the same run; when
\* it returns False the script exits with status 1 and no record was fetched
\* or ingested.
C28_NoUpsertWithoutBlueprint ==
    /\ (ingest_calls # <<>> \/ i_last.called \/ catalog # {}) => sc_setup = "True"
    /\ sc_pc = "loop" => sc_setup = "True"
    /\ sc_setup = "False" =>
          /\ sc_pc = "exit"
          /\ sc_exit = "blueprint_failed"
          /\ ExitStatus(sc_exit) = 1
          /\ fetch_records = <<>>
          /\ ingest_calls = <<>>
          /\ ingested_count = 0
          /\ failed_count = 0
          /\ ~ i_last.called
          /\ catalog = {}

\* C28 witness: the remote script ended with status 1 on a False from
\* setup_blueprint, nothing fetched and nothing ingested.
C28_Witness ==
    /\ script = "remote"
    /\ sc_setup = "False"
    /\ sc_pc = "exit"
    /\ ExitStatus(sc_exit) = 1
    /\ fetch_records = <<>>
    /\ ~ i_last.called

-----------------------------------------------------------------------------
(* GitFetcher                                                              *)

\* the provider branches taken in another order
ProvidersGitLabFirst == <<"gitlab", "github", "azure_repos">>

Providers == <<"github", "gitlab", "azure_repos">>

\* How fetching one repository's README can end: found and parsed; answered
\* 'not found'; refused with another status; content that does not decode
\* (GitHub and GitLab send it base64-encoded, Azure sends it as it is); no
\* date to take last_updated from; a parser that raises.
ReadmeOutcomes ==
    { "ok", "not_found", "provider_error", "decode_error", "date_error", "parse_error" }

\* the body of the inner try with only the provider's exception class handled
FetchReadmeProviderExceptOnly(provider, outcome) ==
    CASE outcome = "ok" ->
            [yielded |-> TRUE, level |-> "info", escapes |-> FALSE]
      [] outcome = "not_found" ->
            [yielded |-> FALSE, level |-> "debug", escapes |-> FALSE]
      [] outcome = "provider_error" ->
            [yielded |-> FALSE, level |-> "error", escapes |-> FALSE]
      [] OTHER ->
            [yielded |-> FALSE, level |-> "", escapes |-> TRUE]

\* the inner handlers with 'not found' logged like every other provider error
FetchReadmeNotFoundAsError(provider, outcome) ==
    CASE outcome = "ok" ->
            [yielded |-> TRUE, level |-> "info", escapes |-> FALSE]
      [] provider = "azure_repos" ->
            [yielded |-> FALSE, level |-> "debug", escapes |-> FALSE]
      [] OTHER ->
            [yielded |-> FALSE, level |-> "error", escapes |-> FALSE]

\* The inner try of the three _fetch_*_readmes loops: what one repository
\* yields, the highest severity logged for it, and whether an exception leaves
\* the loop.  GitHub and GitLab log status 404 at debug and every other
\* failure at error; Azure logs every failure at debug.  A parser that raises
\* has logged at error itself (DocParser.parse) before the fetcher's handler.
FetchReadme(provider, outcome) ==
    CASE outcome = "ok" ->
            [yielded |-> TRUE, level |-> "info", escapes |-> FALSE]
      [] outcome = "parse_error" ->
            [yielded |-> FALSE, level |-> "error", escapes |-> FALSE]
      [] provider = "azure_repos" ->
            [yielded |-> FALSE, level |-> "debug", escapes |-> FALSE]
      [] outcome = "not_found" ->
            [yielded |-> FALSE, level |-> "debug", escapes |-> FALSE]
      [] OTHER ->
            [yielded |-> FALSE, level |-> "error", escapes |-> FALSE]

\* the generator moves on from provider p: to the next branch, or it is exhausted
AfterProvider(p) ==
    IF p < Len(Providers)
    THEN [pc |-> "provider", provider |-> p + 1]
    ELSE [pc |-> "done", provider |-> p]

\* a caller starts iterating fetch_readmes(...)
FetchReadmesCall ==
    /\ UNCHANGED <<searchVars, ingestVars, scriptVars, localVars, parseVars, cleanupVars, authVars, entryVars, loopVars, blueprintVars, strategyVars, callVars>>
    /\ g_pc = "idle"
    /\ g_pc' = "provider"
    /\ g_provider' = 1
    /\ UNCHANGED <<g_targets, g_target, g_repos, g_repo, g_listed, g_attempts,
                   g_visited, g_last, g_raised, g_yielded, g_calls, g_skipped>>

\* the start of one provider branch: skipped without any remote call when its
\* target list is empty or its credentials are missing; the Azure branch
\* opens its connection outside every try
GitProviderStart ==
    /\ UNCHANGED <<searchVars, ingestVars, scriptVars, localVars, parseVars, cleanupVars, authVars, entryVars, loopVars, blueprintVars, strategyVars, callVars>>
    /\ g_pc = "provider"
    /\ \E n \in 0..MaxTargets, credentials \in BOOLEAN, connect \in {"ok", "raises"} :
          /\ Providers[g_provider] # "azure_repos" => connect = "ok"
          /\ IF n = 0 \/ ~credentials
             THEN /\ g_pc' = AfterProvider(g_provider).pc
                  /\ g_provider' = AfterProvider(g_provider).provider
                  /\ g_targets' = 0
                  /\ g_target' = 0
                  /\ g_raised' = g_raised
                  /\ g_skipped' = g_skipped \cup {Providers[g_provider]}
                  /\ g_calls' = g_calls
             ELSE IF connect = "raises"
             THEN /\ g_pc' = "raised"
                  /\ g_provider' = g_provider
                  /\ g_targets' = n
                  /\ g_target' = 0
                  /\ g_raised' = "connection"
                  /\ g_skipped' = g_skipped
                  /\ g_calls' = g_calls \cup {Providers[g_provider]}
             ELSE /\ g_pc' = "target"
                  /\ g_provider' = g_provider
                  /\ g_targets' = n
                  /\ g_target' = 1
                  /\ g_raised' = g_raised
                  /\ g_skipped' = g_skipped
                  /\ g_calls' = IF Providers[g_provider] = "azure_repos"
                                THEN g_calls \cup {Providers[g_provider]}
                                ELSE g_calls
    /\ g_visited' = g_visited + 1
    /\ g_repos' = 0
    /\ g_repo' = 0
    /\ UNCHANGED <<g_listed, g_attempts, g_last, g_yielded>>

\* where the scan goes when it is finished with the current target
AfterTarget ==
    IF g_target < g_targets
    THEN [pc |-> "target", provider |-> g_provider, target |-> g_target + 1]
    ELSE [pc |-> AfterProvider(g_provider).pc,
          provider |-> AfterProvider(g_provider).provider, target |-> 0]

\* the outer try: the organization, group or project is fetched and its
\* repositories listed; a failure is logged at error and the next one is taken
GitTargetList ==
    /\ UNCHANGED <<searchVars, ingestVars, scriptVars, localVars, parseVars, cleanupVars, authVars, entryVars, loopVars, blueprintVars, strategyVars, callVars>>
    /\ g_pc = "target"
    /\ \E listing \in {"ok", "error"}, n \in 0..MaxRepos :
          /\ listing = "error" => n = 0
          /\ IF n = 0
             THEN /\ g_pc' = AfterTarget.pc
                  /\ g_provider' = AfterTarget.provider
                  /\ g_target' = AfterTarget.target
                  /\ g_repos' = 0
                  /\ g_repo' = 0
             ELSE /\ g_pc' = "repo"
                  /\ g_provider' = g_provider
                  /\ g_target' = g_target
                  /\ g_repos' = n
                  /\ g_repo' = 1
          /\ g_listed' = g_listed + n
    /\ g_calls' = g_calls \cup {Providers[g_provider]}
    /\ UNCHANGED <<g_targets, g_attempts, g_visited, g_last, g_raised, g_yielded,
                   g_skipped>>

\* one pass of the inner loop: the README of the current repository
GitReadmeAttempt ==
    /\ UNCHANGED <<searchVars, ingestVars, scriptVars, localVars, parseVars, cleanupVars, authVars, entryVars, loopVars, blueprintVars, strategyVars, callVars>>
    /\ g_pc = "repo"
    /\ \E outcome \in ReadmeOutcomes :
          LET provider == Providers[g_provider]
              got == FetchReadme(provider, outcome)
          IN  /\ provider = "azure_repos" => outcome # "decode_error"
              /\ g_last' = [called |-> TRUE, provider |-> provider, target |-> g_target,
                            repo |-> g_repo, outcome |-> outcome,
                            yielded |-> got.yielded, level |-> got.level]
              /\ g_attempts' = g_attempts + 1
              /\ g_yielded' = IF got.yielded
                                 /\ (g_yielded = <<>>
                                        \/ g_yielded[Len(g_yielded)] # provider)
                              THEN Append(g_yielded, provider)
                              ELSE g_yielded
              /\ IF got.escapes
                 THEN /\ g_pc' = "raised"
                      /\ g_raised' = "readme"
                      /\ UNCHANGED <<g_provider, g_target, g_repo, g_repos>>
                 ELSE IF g_repo < g_repos
                 THEN /\ g_pc' = "repo"
                      /\ g_repo' = g_repo + 1
                      /\ UNCHANGED <<g_provider, g_target, g_repos, g_raised>>
                 ELSE /\ g_pc' = AfterTarget.pc
                      /\ g_provider' = AfterTarget.provider
                      /\ g_target' = AfterTarget.target
                      /\ g_repos' = 0
                      /\ g_repo' = 0
                      /\ g_raised' = g_raised
    /\ g_calls' = g_calls \cup {Providers[g_provider]}
    /\ UNCHANGED <<g_targets, g_listed, g_visited, g_skipped>>

InitGit == SearchIdle /\ IngestIdle /\ ScriptIdle /\ GitIdle /\ LocalIdle /\ ParseIdle /\ CleanupIdle /\ AuthIdle /\ EntryIdle /\ LoopIdle /\ BlueprintIdle /\ StrategyIdle /\ CallsIdle

NextGit == FetchReadmesCall \/ GitProviderStart \/ GitTargetList \/ GitReadmeAttempt

SpecGit == InitGit /\ [][NextGit]_vars

\* C7: a failure while fetching, decoding or parsing one repository's README
\* never leaves fetch_readmes and never stops the scan: nothing a README
\* attempt raises escapes, and when the generator is exhausted every listed
\* repository of every provider has been attempted and all three provider
\* branches have been reached.
C7_ReadmeFailureIsolated ==
    /\ g_raised # "readme"
    /\ g_attempts <= g_listed
    /\ g_pc \in {"provider", "target"} => g_attempts = g_listed
    /\ g_pc = "repo" => g_listed - g_attempts = g_repos - g_repo + 1
    /\ g_pc = "done" => (g_attempts = g_listed /\ g_visited = Len(Providers))

\* C7 witness: the parser raised on the README of a GitHub repository and the
\* scan stands at the next repository of the same organization.
C7_Witness ==
    /\ g_pc = "repo"
    /\ g_raised = ""
    /\ g_last.called
    /\ g_last.provider = "github"
    /\ g_last.outcome = "parse_error"
    /\ g_provider = 1
    /\ g_target = g_last.target
    /\ g_repo = g_last.repo + 1

\* C8 as claimed: a README answered 'not found' yields no record and logs
\* nothing at error severity, and a README failure with any other status is
\* logged at error severity.
C8_OtherStatusLoggedAtError ==
    g_last.called =>
        /\ g_last.outcome = "not_found" =>
              (~g_last.yielded /\ g_last.level # "error")
        /\ g_last.outcome = "provider_error" => g_last.level = "error"

\* C8 amended: a README answered 'not found' yields no record and is logged
\* at debug only; for GitHub and GitLab a README failure with any other
\* status is logged at error severity; for Azure DevOps a README failure with
\* any status, 'not found' or another, is logged at debug severity only and
\* yields no record.
C8_NotFoundSilentAzureAllDebug ==
    g_last.called =>
        /\ g_last.outcome = "not_found" =>
              (~g_last.yielded /\ g_last.level = "debug")
        /\ (g_last.outcome = "provider_error" /\ g_last.provider # "azure_repos")
              => (~g_last.yielded /\ g_last.level = "error")
        /\ (g_last.outcome \in {"not_found", "provider_error"}
               /\ g_last.provider = "azure_repos")
              => (~g_last.yielded /\ g_last.level = "debug")

\* C8 witness: a GitLab repository without README was skipped at debug, after
\* which the scan went on.
C8_Witness ==
    /\ g_last.called
    /\ g_last.provider = "gitlab"
    /\ g_last.outcome = "not_found"
    /\ ~g_last.yielded
    /\ g_last.level = "debug"
    /\ g_pc = "repo"

\* the place of a record's source in the combined sequence
SourceRank(p) ==
    CASE p = "github" -> 1
      [] p = "gitlab" -> 2
      [] p = "azure_repos" -> 3

\* C26: the records fetch_readmes yields are all GitHub records first, then
\* all GitLab records, then all Azure records; a provider whose target list is
\* empty or whose credentials are missing yields no record and receives no
\* remote call, and the generator goes on past it to the other providers.
C26_ProvidersInOrderSkippedSilent ==
    /\ \A i \in 1..Len(g_yielded) : \A j \in (i + 1)..Len(g_yielded) :
          SourceRank(g_yielded[i]) < SourceRank(g_yielded[j])
    /\ \A p \in g_skipped :
          /\ p \notin g_calls
          /\ \A i \in 1..Len(g_yielded) : g_yielded[i] # p
          /\ g_pc # "raised" \/ Providers[g_provider] # p
          /\ Providers[g_provider] = p => g_pc = "done"

\* C26 witness: GitLab was skipped, and the exhausted generator has yielded
\* several GitHub records followed by Azure records.
C26_Witness ==
    /\ g_pc = "done"
    /\ g_skipped = {"gitlab"}
    /\ g_calls = {"github", "azure_repos"}
    /\ g_yielded = <<"github", "azure_repos">>
    /\ g_attempts >= 3
    /\ g_last.yielded

-----------------------------------------------------------------------------
(* LocalFetcher                                                            *)

RECURSIVE RFind(_, _, _)
\* str.rfind(c) at or below position i: the last position of character c, or 0
RFind(s, c, i) ==
    IF i = 0 THEN 0 ELSE IF CharAt(s, i) = c THEN i ELSE RFind(s, c, i - 1)

\* PurePath.suffix of a file name: from its last dot on, unless that dot is
\* the first or the last character
PathSuffix(name) ==
    LET i == RFind(name, ".", Len(name))
    IN  IF 1 < i /\ i < Len(name) THEN SubSeq(name, i, Len(name)) ELSE ""

\* the names of the paths under the documentation root
FileNames == { "guide.md", "README.MD", "notes.markdown", "data.txt", "Makefile", ".md" }

\* the file_extensions argument: its default and another list
ExtensionLists == { {".md", ".markdown"}, {".txt"} }

\* how open(), read(), getmtime() and the parser fare on one file
FileOutcomes == { "ok", "read_error", "stat_error", "parse_error" }

\* the loop body with the try and its except clause left out
FetchDocumentNoExcept(name, is_file, outcome, file_extensions) ==
    IF PyLower(PathSuffix(name)) \in file_extensions /\ is_file
    THEN IF outcome = "ok"
         THEN [yielded |-> TRUE, level |-> "", escapes |-> FALSE]
         ELSE [yielded |-> FALSE, level |-> "", escapes |-> TRUE]
    ELSE [yielded |-> FALSE, level |-> "", escapes |-> FALSE]

\* The body of the loop over rglob('*'): a path passes the filter when its
\* lower-cased suffix is in file_extensions and it is a file; it is then read,
\* dated and parsed inside one try whose handler logs at error severity.
FetchDocument(name, is_file, outcome, file_extensions) ==
    IF PyLower(PathSuffix(name)) \in file_extensions /\ is_file
    THEN IF outcome = "ok"
         THEN [yielded |-> TRUE, level |-> "", escapes |-> FALSE]
         ELSE [yielded |-> FALSE, level |-> "error", escapes |-> FALSE]
    ELSE [yielded |-> FALSE, level |-> "", escapes |-> FALSE]

\* a caller starts iterating fetch_documents(docs_path, file_extensions): a
\* docs_path that is no directory is logged at error and the generator ends
FetchDocumentsCall ==
    /\ UNCHANGED <<searchVars, ingestVars, scriptVars, gitVars, parseVars, cleanupVars, authVars, entryVars, loopVars, blueprintVars, strategyVars, callVars>>
    /\ l_pc = "idle"
    /\ \E is_dir \in BOOLEAN, extensions \in ExtensionLists, n \in 0..MaxFiles :
          /\ l_extensions' = extensions
          /\ IF is_dir
             THEN l_pc' = "walk" /\ l_entries' = n /\ l_errors' = 0
             ELSE l_pc' = "done" /\ l_entries' = 0 /\ l_errors' = 1
    /\ l_index' = 0
    /\ l_yielded' = 0
    /\ l_last' = NoCall

\* one pass of the loop, for the next path of the walk
FetchDocumentsStep ==
    /\ UNCHANGED <<searchVars, ingestVars, scriptVars, gitVars, parseVars, cleanupVars, authVars, entryVars, loopVars, blueprintVars, strategyVars, callVars>>
    /\ l_pc = "walk"
    /\ l_index < l_entries
    /\ \E name \in FileNames, is_file \in BOOLEAN, outcome \in FileOutcomes :
          LET got == FetchDocument(name, is_file, outcome, l_extensions)
          IN  /\ l_last' = [called |-> TRUE, name |-> name, is_file |-> is_file,
                            outcome |-> outcome, yielded |-> got.yielded,
                            level |-> got.level]
              /\ l_yielded' = IF got.yielded THEN l_yielded + 1 ELSE l_yielded
              /\ l_errors' = IF got.level = "error" THEN l_errors + 1 ELSE l_errors
              /\ l_pc' = IF got.escapes THEN "raised" ELSE "walk"
    /\ l_index' = l_index + 1
    /\ UNCHANGED <<l_extensions, l_entries>>

\* the walk is over: the generator is exhausted
FetchDocumentsEnd ==
    /\ UNCHANGED <<searchVars, ingestVars, scriptVars, gitVars, parseVars, cleanupVars, authVars, entryVars, loopVars, blueprintVars, strategyVars, callVars>>
    /\ l_pc = "walk"
    /\ l_index = l_entries
    /\ l_pc' = "done"
    /\ UNCHANGED <<l_extensions, l_entries, l_index, l_yielded, l_errors, l_last>>

InitLocal == SearchIdle /\ IngestIdle /\ ScriptIdle /\ GitIdle /\ LocalIdle /\ ParseIdle /\ CleanupIdle /\ AuthIdle /\ EntryIdle /\ LoopIdle /\ BlueprintIdle /\ StrategyIdle /\ CallsIdle

NextLocal == FetchDocumentsCall \/ FetchDocumentsStep \/ FetchDocumentsEnd

SpecLocal == InitLocal /\ [][NextLocal]_vars

\* the extensions a file name ends with, written out for each name
EndsWithExtension(name, extensions) ==
    \/ name \in {"guide.md", "README.MD"} /\ ".md" \in extensions
    \/ name = "notes.markdown" /\ ".markdown" \in extensions
    \/ name = "data.txt" /\ ".txt" \in extensions

-----------------------------------------------------------------------------
(* DocParser                                                               *)

\* A markdown text as the front-matter reader sees it: fm says whether the
\* text opens with a front-matter block and whether that block is valid YAML;
\* title and category are the block's keys of those names (None when the
\* block has none), tags is its list of tags, body is the text after the
\* block.
ContentWith(fm, title, category, tags, body) ==
    [fm |-> fm, title |-> title, category |-> category, tags |-> tags, body |-> body]

\* a text whose front matter, if any, has at most a title
Content(fm, title, body) == ContentWith(fm, title, None, <<>>, body)

RECURSIVE TagLines(_)
TagLines(tags) ==
    IF tags = <<>> THEN "" ELSE "  - " \o Head(tags) \o "\n" \o TagLines(Tail(tags))

\* the characters of a text, front-matter block included
RawText(content) ==
    CASE content.fm = "none" -> content.body
      [] content.fm = "malformed" -> "---\ntitle: [\n---\n" \o content.body
      [] content.fm = "ok" ->
            "---\n"
            \o (IF content.title = None THEN ""
                ELSE "title: '" \o content.title \o "'\n")
            \o (IF content.category = None THEN ""
                ELSE "category: '" \o content.category \o "'\n")
            \o (IF content.tags = <<>> THEN "" ELSE "tags:\n" \o TagLines(content.tags))
            \o "---\n" \o content.body

\* the title values of a well-formed front-matter block
FrontMatterTitles == { None, "", "FM Title", "getting started" }

Bodies ==
    { "# Heading One\n\nSome text.",
      "Intro\n# Late Heading  \nmore",
      "No heading here.",
      "#\t \nNext line",
      "#  ",
      "## Sub only\n#NoSpace",
      "  # Indented",
      "# Just a Header\n\nSome text.",
      "Use the REST API on AWS.",
      "" }

\* texts long enough to take more than a minute to read
LongBodies == { Repeat("w ", 100), Repeat("w ", 300), Repeat("w\n", 500) }

\* texts whose front matter has a category or tags
TaggedContents ==
    { ContentWith("ok", "My Test Document", "Guide", <<"test", "sample">>,
                  "# Main Header\n\nIt mentions python and Docker.\n"),
      ContentWith("ok", None, "", <<"docker", "Zeta", "docker">>,
                  "Use Docker with the REST API."),
      ContentWith("ok", None, "Runbooks", <<>>, "kubernetes, GraphQL") }

Contents ==
    { Content("none", None, b) : b \in Bodies }
    \cup { Content("malformed", None, b) : b \in Bodies }
    \cup { Content("ok", t, b) : t \in FrontMatterTitles, b \in Bodies }
    \cup TaggedContents
    \cup { Content("none", None, b) : b \in LongBodies }
    \cup { Content("ok", "FM Title", b) : b \in LongBodies }

FilePaths ==
    { "docs/getting-started.md", "README.md", "my_api-guide.markdown", "notes",
      "org/repo/README.md", "guides/test-document.md",
      "Reference/Tutorial_Docs/intro.md", "My_Examples/concept.md",
      "concepts/overview.md" }

\* the source argument of parse
Sources == { "local", "github" }

\* the last_updated argument of parse
Timestamps == { "2024-05-01T10:00:00+00:00" }

\* extract_frontmatter with a loader that leaves a text without a block as it
\* came
ExtractFrontmatterNoStrip(content) ==
    CASE content.fm = "ok" ->
            [metadata |-> [title |-> content.title, category |-> content.category,
                           tags |-> content.tags],
             content |-> PyStrip(content.body)]
      [] content.fm \in {"none", "malformed"} ->
            [metadata |-> [title |-> None, category |-> None, tags |-> <<>>],
             content |-> RawText(content)]

\* extract_frontmatter: the metadata and the content of the loaded post. The
\* loader strips the text, and strips the content again once it has split a
\* block off; when loading raises, as on a block that is not valid YAML, the
\* result is ({}, content) with the text as it came. A metadata key that is
\* absent reads as None through get(), an absent tags key as the empty list.
ExtractFrontmatter(content) ==
    CASE content.fm = "ok" ->
            [metadata |-> [title |-> content.title, category |-> content.category,
                           tags |-> content.tags],
             content |-> PyStrip(content.body)]
      [] content.fm = "none" ->
            [metadata |-> [title |-> None, category |-> None, tags |-> <<>>],
             content |-> PyStrip(RawText(content))]
      [] content.fm = "malformed" ->
            [metadata |-> [title |-> None, category |-> None, tags |-> <<>>],
             content |-> RawText(content)]

RECURSIVE SkipWhitespace(_, _)
\* the first position at or after i that holds no whitespace; Len(s) + 1 if none
SkipWhitespace(s, i) ==
    IF i <= Len(s) /\ CharAt(s, i) \in Whitespace THEN SkipWhitespace(s, i + 1) ELSE i

RECURSIVE LineEnd(_, _)
\* the last position of the line that position i is on
LineEnd(s, i) ==
    IF i < Len(s) /\ CharAt(s, i + 1) # "\n" THEN LineEnd(s, i + 1) ELSE i

\* the match of ^#\s+(.+)$ (MULTILINE) that starts at position p, if there
\* is one: \s+ takes all the whitespace after the # , line breaks included,
\* and gives back as little as lets (.+) match up to the end of a line
HeadingMatchAt(s, p) ==
    LET q == p + 1
        r == SkipWhitespace(s, q)
        given_back == { t \in (q + 1)..Len(s) : CharAt(s, t) # "\n" }
        t_max == CHOOSE t \in given_back : \A u \in given_back : u <= t
    IN  IF ~ (CharAt(s, p) = "#" /\ (p = 1 \/ CharAt(s, p - 1) = "\n")) \/ r = q
        THEN [found |-> FALSE, group |-> ""]
        ELSE IF r <= Len(s)
        THEN [found |-> TRUE, group |-> SubSeq(s, r, LineEnd(s, r))]
        ELSE IF given_back # {}
        THEN [found |-> TRUE, group |-> CharAt(s, t_max)]
        ELSE [found |-> FALSE, group |-> ""]

\* Path(source_path).stem: the last component without its suffix
PathStem(source_path) ==
    LET slash == RFind(source_path, "/", Len(source_path))
        name == SubSeq(source_path, slash + 1, Len(source_path))
        dot == RFind(name, ".", Len(name))
    IN  IF 1 < dot /\ dot < Len(name) THEN SubSeq(name, 1, dot - 1) ELSE name

\* extract_title: group 1 of the first heading match, stripped; else the
\* file name's stem with - and _ turned into spaces, title-cased
ExtractTitle(content, source_path) ==
    LET starts == { p \in 1..Len(content) : HeadingMatchAt(content, p).found }
        first == CHOOSE p \in starts : \A u \in starts : p <= u
    IN  IF starts # {}
        THEN PyStrip(HeadingMatchAt(content, first).group)
        ELSE PyTitle(PyReplace(PyReplace(PathStem(source_path), "-", " "), "_", " "))

\* Python's truth value of a string or None
Truthy(v) == v # None /\ v # ""

\* sub in s, for strings
Contains(s, sub) ==
    \E i \in 1..(Len(s) - Len(sub) + 1) : SubSeq(s, i, i + Len(sub) - 1) = sub

\* categorize_document with the guide rule tried before the API rule
CategorizeDocumentGuideFirst(source_path, content) ==
    LET path_lower == PyLower(source_path)
    IN  IF Contains(path_lower, "guide") \/ Contains(path_lower, "tutorial")
        THEN "Guide"
        ELSE IF Contains(path_lower, "api") \/ Contains(path_lower, "reference")
        THEN "API Reference"
        ELSE IF Contains(path_lower, "example")
        THEN "Example"
        ELSE IF Contains(path_lower, "concept")
        THEN "Concept"
        ELSE "Documentation"

\* categorize_document: the first rule that the lower-cased path meets
CategorizeDocument(source_path, content) ==
    LET path_lower == PyLower(source_path)
    IN  IF Contains(path_lower, "api") \/ Contains(path_lower, "reference")
        THEN "API Reference"
        ELSE IF Contains(path_lower, "guide") \/ Contains(path_lower, "tutorial")
        THEN "Guide"
        ELSE IF Contains(path_lower, "example")
        THEN "Example"
        ELSE IF Contains(path_lower, "concept")
        THEN "Concept"
        ELSE "Documentation"

RECURSIVE PartsFrom(_, _, _, _)
\* the components of a relative path: the runs between slashes, empty runs
\* and single dots left out
PartsFrom(s, i, part, acc) ==
    LET closed == IF part = "" \/ part = "." THEN acc ELSE Append(acc, part)
    IN  IF i > Len(s) THEN closed
        ELSE IF CharAt(s, i) = "/" THEN PartsFrom(s, i + 1, "", closed)
        ELSE PartsFrom(s, i + 1, part \o CharAt(s, i), acc)

\* the path taken as one component, whatever slashes it has
PathPartsWhole(source_path) == <<source_path>>

\* Path(source_path).parts
PathParts(source_path) == PartsFrom(source_path, 1, "", <<>>)

\* the characters of the texts, tags and paths, in code point order
CodePoints == "\t\n !#'(),-./0123456789:ABCDEFGHIJKLMNOPQRSTUVWXYZ[]_abcdefghijklmnopqrstuvwxyz"

CodePointTable == [i \in 1..Len(CodePoints) |-> CharAt(CodePoints, i)]

\* the rank of a character in code point order
Ord(c) == CHOOSE i \in 1..Len(CodePoints) : CodePointTable[i] = c

RECURSIVE StrLess(_, _)
\* a < b for strings: the first differing character decides, a proper
\* prefix comes first
StrLess(a, b) ==
    IF b = "" THEN FALSE
    ELSE IF a = "" THEN TRUE
    ELSE IF CharAt(a, 1) = CharAt(b, 1) THEN StrLess(Tail(a), Tail(b))
    ELSE Ord(CharAt(a, 1)) < Ord(CharAt(b, 1))

RECURSIVE PySorted(_)
\* sorted(list(a_set)) for a set of strings
PySorted(S) ==
    IF S = {} THEN <<>>
    ELSE LET least == CHOOSE x \in S : \A y \in S \ {x} : StrLess(x, y)
         IN  <<least>> \o PySorted(S \ {least})

\* set(a_list)
PySet(seq) == { seq[i] : i \in DOMAIN seq }

\* the vocabulary in the order extract_tags scans it
tech_terms ==
    << "api", "rest", "graphql", "webhook", "python", "javascript",
       "docker", "kubernetes", "aws", "azure", "gcp", "integration" >>

RECURSIVE ScanTerms(_, _, _)
\* the loop over the vocabulary: a term found in the lower-cased content
\* is added to the set
ScanTerms(terms, content_lower, tags) ==
    IF terms = <<>> THEN tags
    ELSE ScanTerms(Tail(terms), content_lower,
                   IF Contains(content_lower, Head(terms))
                   THEN tags \cup {Head(terms)} ELSE tags)

\* extract_tags with the vocabulary scanned in a given order
ExtractTagsScanning(terms, source_path, content) ==
    LET path_parts == PathParts(source_path)
        from_path == IF Len(path_parts) > 1
                     THEN {PyReplace(PyLower(path_parts[Len(path_parts) - 1]), "_", "-")}
                     ELSE {}
    IN  PySorted(ScanTerms(terms, PyLower(content), from_path))

\* extract_tags with the content searched as it is, not lower-cased
ExtractTagsCaseSensitive(source_path, content) ==
    LET path_parts == PathParts(source_path)
        from_path == IF Len(path_parts) > 1
                     THEN {PyReplace(PyLower(path_parts[Len(path_parts) - 1]), "_", "-")}
                     ELSE {}
    IN  PySorted(ScanTerms(tech_terms, content, from_path))

\* extract_tags
ExtractTags(source_path, content) ==
    ExtractTagsScanning(tech_terms, source_path, content)

\* round(n / d) for n >= 0, d > 0: to the nearest integer, a tie to the even one
PyRoundDiv(n, d) ==
    LET q == n \div d
        r == n % d
    IN  IF 2 * r < d THEN q
        ELSE IF 2 * r > d THEN q + 1
        ELSE IF q % 2 = 0 THEN q ELSE q + 1

\* reading_time as an integer division, rounding down
ReadingTimeFloor(word_count) == Max(1, word_count \div 200)

\* max(1, round(word_count / 200))
ReadingTime(word_count) == Max(1, PyRoundDiv(word_count, 200))

\* the DocMetadata parse builds from the parts it has worked out
ParsedMetadata(title, main_content, metadata, source, file_path, last_updated) ==
    LET word_count == Len(PySplit(main_content))
    IN  [title |-> title,
         content |-> main_content,
         category |-> IF Truthy(metadata.category)
                      THEN metadata.category
                      ELSE CategorizeDocument(file_path, main_content),
         tags |-> PySorted(PySet(metadata.tags)
                           \cup PySet(ExtractTags(file_path, main_content))),
         source |-> source,
         file_path |-> file_path,
         last_updated |-> last_updated,
         word_count |-> word_count,
         reading_time |-> ReadingTime(word_count)]

\* parse with the heading or file name taking precedence over the front matter
ParseHeadingFirst(content, source, file_path, last_updated) ==
    LET post == ExtractFrontmatter(content)
        extracted == ExtractTitle(post.content, file_path)
        title == IF Truthy(extracted) THEN extracted ELSE post.metadata.title
    IN  Return(ParsedMetadata(title, post.content, post.metadata,
                              source, file_path, last_updated))

\* parse: fm.get('title') or extract_title(main_content, file_path), and
\* likewise the category; the tags of the front matter and of extract_tags
\* in one sorted list; the counts taken from the content without the front
\* matter
Parse(content, source, file_path, last_updated) ==
    LET post == ExtractFrontmatter(content)
        title == IF Truthy(post.metadata.title)
                 THEN post.metadata.title
                 ELSE ExtractTitle(post.content, file_path)
    IN  Return(ParsedMetadata(title, post.content, post.metadata,
                              source, file_path, last_updated))

\* a fetcher calls DocParser.parse(content, source, file_path, last_updated)
ParseCall ==
    /\ UNCHANGED <<searchVars, ingestVars, scriptVars, gitVars, localVars, cleanupVars, authVars, entryVars, loopVars, blueprintVars, strategyVars, callVars>>
    /\ ~ p_last.called
    /\ \E content \in Contents, source \in Sources, file_path \in FilePaths,
          last_updated \in Timestamps :
          p_last' = [called |-> TRUE, content |-> content, source |-> source,
                     file_path |-> file_path, last_updated |-> last_updated,
                     result |-> Parse(content, source, file_path, last_updated)]

InitParse == SearchIdle /\ IngestIdle /\ ScriptIdle /\ GitIdle /\ LocalIdle /\ ParseIdle /\ CleanupIdle /\ AuthIdle /\ EntryIdle /\ LoopIdle /\ BlueprintIdle /\ StrategyIdle /\ CallsIdle

NextParse == ParseCall

SpecParse == InitParse /\ [][NextParse]_vars

StemTitle(file_path) ==
    CASE file_path = "docs/getting-started.md" -> "Getting Started"
      [] file_path = "README.md" -> "Readme"
      [] file_path = "my_api-guide.markdown" -> "My Api Guide"
      [] file_path = "notes" -> "Notes"
      [] file_path = "org/repo/README.md" -> "Readme"
      [] file_path = "guides/test-document.md" -> "Test Document"
      [] file_path = "Reference/Tutorial_Docs/intro.md" -> "Intro"
      [] file_path = "My_Examples/concept.md" -> "Concept"
      [] file_path = "concepts/overview.md" -> "Overview"

\* the lines of a text that are a level-1 heading: "# " and then some text
HeadingLines(text) ==
    { i \in 1..Len(text) :
        /\ i = 1 \/ CharAt(text, i - 1) = "\n"
        /\ SubSeq(text, i, i + 1) = "# "
        /\ PyStrip(SubSeq(text, i + 2, LineEnd(text, i + 1))) # "" }

\* the trimmed text of the first level-1 heading of a text that has one
FirstHeadingText(text) ==
    LET i == CHOOSE h \in HeadingLines(text) : \A u \in HeadingLines(text) : h <= u
    IN  PyStrip(SubSeq(text, i + 2, LineEnd(text, i + 1)))

\* C11: when the front matter gives no title, the parsed title is the trimmed
\* text of the first level-1 heading line of the content if there is such a
\* line, and otherwise the title made from the file name's stem.
C11_HeadingElseFileStem ==
    (p_last.called /\ (p_last.content.fm # "ok" \/ p_last.content.title = None)) =>
        /\ p_last.result.kind = "return"
        /\ p_last.result.value.title =
              IF HeadingLines(p_last.result.value.content) # {}
              THEN FirstHeadingText(p_last.result.value.content)
              ELSE StemTitle(p_last.file_path)

\* C12: every record parse returns has a non-empty title and carries the
\* source, file_path and last_updated arguments unchanged.
C12_TitleNonEmptyArgumentsKept ==
    p_last.called =>
        /\ p_last.result.kind = "return"
        /\ p_last.result.value.title \notin {"", None}
        /\ p_last.result.value.source = p_last.source
        /\ p_last.result.value.file_path = p_last.file_path
        /\ p_last.result.value.last_updated = p_last.last_updated

\* the category the path rules give each path
PathCategory(file_path) ==
    CASE file_path \in {"my_api-guide.markdown", "Reference/Tutorial_Docs/intro.md"}
            -> "API Reference"
      [] file_path = "guides/test-document.md" -> "Guide"
      [] file_path = "My_Examples/concept.md" -> "Example"
      [] file_path = "concepts/overview.md" -> "Concept"
      [] OTHER -> "Documentation"

ParentTag(file_path) ==
    CASE file_path = "docs/getting-started.md" -> {"docs"}
      [] file_path = "org/repo/README.md" -> {"repo"}
      [] file_path = "guides/test-document.md" -> {"guides"}
      [] file_path = "Reference/Tutorial_Docs/intro.md" -> {"tutorial-docs"}
      [] file_path = "My_Examples/concept.md" -> {"my-examples"}
      [] file_path = "concepts/overview.md" -> {"concepts"}
      [] OTHER -> {}

\* the technology vocabulary
Vocabulary ==
    { "api", "rest", "graphql", "webhook", "python", "javascript",
      "docker", "kubernetes", "aws", "azure", "gcp", "integration" }

\* the vocabulary scanned from its last term to its first
ReversedTerms == [i \in 1..Len(tech_terms) |-> tech_terms[Len(tech_terms) + 1 - i]]

\* C14: the tags are the ascending, duplicate-free list of the front-matter
\* tags, the parent directory's tag and every vocabulary term that occurs in
\* the body whatever its case; scanning the vocabulary in the opposite order
\* gives the same list.
C14_TagsSortedUnion ==
    p_last.called =>
        LET tags == p_last.result.value.tags
            body == p_last.result.value.content
            given == IF p_last.content.fm = "ok" THEN PySet(p_last.content.tags) ELSE {}
            found == { t \in Vocabulary : Contains(PyLower(body), t) }
        IN  /\ p_last.result.kind = "return"
            /\ PySet(tags) = given \cup ParentTag(p_last.file_path) \cup found
            /\ \A i, j \in DOMAIN tags : i < j => StrLess(tags[i], tags[j])
            /\ tags = PySorted(given \cup
                               PySet(ExtractTagsScanning(ReversedTerms,
                                                         p_last.file_path, body)))

\* C14 witness: front-matter tags with a duplicate and a capital, a parent
\* directory, and body terms in capitals, all in one sorted list.
C14_Witness ==
    /\ p_last.called
    /\ p_last.content.tags = <<"docker", "Zeta", "docker">>
    /\ p_last.file_path = "My_Examples/concept.md"
    /\ p_last.result.value.tags = <<"Zeta", "api", "docker", "my-examples", "rest">>

\* the number of whitespace-separated tokens of a text
TokenCount(text) ==
    Cardinality({ i \in 1..Len(text) :
                    /\ CharAt(text, i) \notin Whitespace
                    /\ (i = 1 \/ CharAt(text, i - 1) \in Whitespace) })

\* n / 200 rounded to the nearest integer, a tie going to the even one
NearestMinute(n) ==
    CHOOSE k \in 0..(n \div 200 + 1) :
        \/ 200 * k - 100 < n /\ n < 200 * k + 100
        \/ k % 2 = 0 /\ (n = 200 * k - 100 \/ n = 200 * k + 100)

C16_ExampleWordCountFour ==
    (/\ p_last.called
     /\ p_last.content = Content("none", None, "# Just a Header\n\nSome text.")
     /\ p_last.source = "github"
     /\ p_last.file_path = "org/repo/README.md") =>
        /\ p_last.result.kind = "return"
        /\ p_last.result.value.title = "Just a Header"
        /\ \E i \in DOMAIN p_last.result.value.tags : p_last.result.value.tags[i] = "repo"
        /\ p_last.result.value.word_count = 4

\* C16 amended: the same text parsed the same way has the title "Just a
\* Header", the tag "repo" and a word_count of 6, the # counting as a token.
C16_ExampleWordCountSix ==
    (/\ p_last.called
     /\ p_last.content = Content("none", None, "# Just a Header\n\nSome text.")
     /\ p_last.source = "github"
     /\ p_last.file_path = "org/repo/README.md") =>
        /\ p_last.result.kind = "return"
        /\ p_last.result.value.title = "Just a Header"
        /\ \E i \in DOMAIN p_last.result.value.tags : p_last.result.value.tags[i] = "repo"
        /\ p_last.result.value.word_count = 6

\* C16 witness: that text has been parsed under that source and path.
C16_Witness ==
    /\ p_last.called
    /\ p_last.content = Content("none", None, "# Just a Header\n\nSome text.")
    /\ p_last.source = "github"
    /\ p_last.file_path = "org/repo/README.md"
    /\ p_last.result.kind = "return"
    /\ p_last.result.value.word_count = 6

\* how many searches multi_strategy_search makes for a query: the direct one
\* and, when the query has several tokens, one for each token longer than 3
SearchesDue(q) ==
    CASE q \in {"", "docs", " how to\t"} -> 1
      [] q = "api docs" -> 2
      [] q = "port api guide setup" -> 4

\* C17: a search request that fails comes back from search_entities as a
\* result with ok false and an error and adds nothing to the results; the
\* other searches are still made; when all of them fail the result list is
\* empty and search_and_respond returns the no-results text.
C17_FailedSearchIsolated ==
    s_caller = "bot" =>
        /\ \A i \in DOMAIN s_outcomes :
              s_outcomes[i].failed =>
                  /\ ~ s_outcomes[i].ok
                  /\ s_outcomes[i].has_error
                  /\ s_outcomes[i].added = 0
        /\ Len(s_outcomes) = Len(searches)
        /\ s_pc = "done" =>
              /\ Len(s_outcomes) = SearchesDue(query)
              /\ (\A i \in DOMAIN s_outcomes : s_outcomes[i].failed) =>
                    /\ unique_results = <<>>
                    /\ response = <<[part |-> "no_results", number |-> 0,
                                     title |-> query, category |-> None,
                                     summary |-> None]>>

\* C17 witness: the direct search and the first keyword search failed, a
\* later keyword search still ran and added an entity, and the answer lists it.
C17_Witness ==
    /\ s_caller = "bot"
    /\ s_pc = "done"
    /\ Len(s_outcomes) = 4
    /\ s_outcomes[1].failed
    /\ s_outcomes[2].failed
    /\ s_outcomes[3].ok /\ s_outcomes[3].added > 0
    /\ s_outcomes[4].failed
    /\ Len(unique_results) > 0
    /\ response[1].part = "header"

\* the categories and the tags of the entities of a result list
CategoriesOf(results) ==
    { results[i].properties.category :
        i \in { j \in DOMAIN results :
                  results[j].has_properties /\ results[j].properties.category # None } }

TagsOf(results) ==
    UNION { PySet(results[i].properties.tags) :
              i \in { j \in DOMAIN results : results[j].has_properties } }

\* C18: search_and_respond returns the no-results text exactly when the
\* result list is empty; otherwise the text has min(5, n) numbered entries
\* in the order of the results, a line counting n - 5 further results
\* exactly when n > 5, and at its end a footer with the categories and the
\* tags of all n results.
C18_ResponseWithFooter ==
    r_last.called =>
        LET results == r_last.results
            parts == r_last.response
            n == Len(results)
            entries == SelectSeq(parts, LAMBDA x : x.part = "entry")
            overflow == SelectSeq(parts, LAMBDA x : x.part = "overflow")
            last == parts[Len(parts)]
        IN  /\ Len(parts) >= 1
            /\ (parts[1].part = "no_results") <=> (n = 0)
            /\ n > 0 =>
                  /\ Len(entries) = Min(5, n)
                  /\ \A i \in DOMAIN entries :
                        /\ entries[i].number = i
                        /\ entries[i].title =
                              IF results[i].title = None THEN "Untitled"
                              ELSE results[i].title
                  /\ Len(overflow) = (IF n > 5 THEN 1 ELSE 0)
                  /\ n > 5 => overflow[1].number = n - 5
                  /\ last.part = "footer"
                  /\ last.categories = CategoriesOf(results)
                  /\ last.tags = TagsOf(results)

-----------------------------------------------------------------------------
(* The cleanup utilities                                                   *)

\* PortCleanup is the class of cleanup_entities.py, which authenticates and
\* builds its headers itself; PortEntityCleaner is the class of
\* scripts/cleanup_entities.py, which asks the PortClient it is given for
\* _get_headers().
Cleaners == { "PortCleanup", "PortEntityCleaner" }

\* whether the client a cleaner holds has the method _get_headers: the
\* package's PortClient defines none
HasGetHeaders(cleaner) == cleaner = "PortCleanup"

\* the answers of the catalog to DELETE .../entities/{id}: a status, or no
\* answer at all
DeleteOutcomes == { "200", "204", "404", "500", "connection_error" }

\* the answers of the catalog to GET .../entities
ListOutcomes == { "200", "500", "connection_error" }

\* the identifiers of the entities the catalog lists; None for an entity
\* without the key
CleanupIdentifiers == { "doc-1", None }

\* PortCleanup.delete_entity: status_code in [200, 204, 404]
PortCleanupDeleteEntity(outcome) ==
    IF outcome = "connection_error" THEN Raise("ConnectionError")
    ELSE Return(outcome \in {"200", "204", "404"})

\* PortEntityCleaner.delete_entity: the headers are asked for before the
\* request is made; a 404 is a success, another error status is caught as
\* an HTTPError, anything else that is raised goes to the caller
PortEntityCleanerDeleteEntity(has_get_headers, outcome) ==
    IF ~ has_get_headers THEN Raise("AttributeError")
    ELSE IF outcome = "connection_error" THEN Raise("ConnectionError")
    ELSE IF outcome = "404" THEN Return(TRUE)
    ELSE IF outcome = "500" THEN Return(FALSE)
    ELSE Return(TRUE)

\* delete_entity of either class, and whether its request reached the catalog
DeleteEntity(cleaner, outcome) ==
    IF cleaner = "PortCleanup"
    THEN [sent |-> TRUE, result |-> PortCleanupDeleteEntity(outcome)]
    ELSE [sent |-> HasGetHeaders(cleaner),
          result |-> PortEntityCleanerDeleteEntity(HasGetHeaders(cleaner), outcome)]

\* get_all_entities of either class: the listed entities, [] for an error
\* status
GetAllEntities(cleaner, outcome, entities) ==
    IF cleaner = "PortEntityCleaner" /\ ~ HasGetHeaders(cleaner)
    THEN Raise("AttributeError")
    ELSE IF outcome = "connection_error" THEN Raise("ConnectionError")
    ELSE IF outcome = "200" THEN Return(entities)
    ELSE Return(<<>>)

\* delete_all_entities(blueprint_id) starts: it fetches the entities
DeleteAllEntitiesCall ==
    /\ UNCHANGED <<searchVars, ingestVars, scriptVars, gitVars, localVars, parseVars, authVars, entryVars, loopVars, blueprintVars, strategyVars, callVars>>
    /\ c_pc = "idle"
    /\ \E cleaner \in Cleaners, outcome \in ListOutcomes,
          listed \in UNION { [1..n -> CleanupIdentifiers] : n \in 0..MaxCleanup } :
          LET got == GetAllEntities(cleaner, outcome, listed)
          IN  /\ c_cleaner' = cleaner
              /\ c_entities' = IF got.kind = "return" THEN got.value ELSE <<>>
              /\ c_pc' = IF got.kind = "raise" THEN "raised" ELSE "loop"
    /\ c_index' = 0
    /\ c_deleted' = 0
    /\ c_last' = NoCall

\* one pass of the loop over the entities: an entity with an identifier is
\* deleted and counted when delete_entity returns True
DeleteAllEntitiesStep ==
    /\ UNCHANGED <<searchVars, ingestVars, scriptVars, gitVars, localVars, parseVars, authVars, entryVars, loopVars, blueprintVars, strategyVars, callVars>>
    /\ c_pc = "loop"
    /\ c_index < Len(c_entities)
    /\ \E outcome \in DeleteOutcomes :
          LET entity_id == c_entities[c_index + 1]
              got == DeleteEntity(c_cleaner, outcome)
          IN  IF entity_id = None
              THEN /\ c_last' = NoCall
                   /\ c_deleted' = c_deleted
                   /\ c_pc' = "loop"
              ELSE /\ c_last' = [called |-> TRUE, cleaner |-> c_cleaner, in_loop |-> TRUE,
                                 outcome |-> outcome, sent |-> got.sent,
                                 result |-> got.result, deleted_before |-> c_deleted]
                   /\ c_deleted' = IF got.result.kind = "return" /\ got.result.value
                                   THEN c_deleted + 1 ELSE c_deleted
                   /\ c_pc' = IF got.result.kind = "raise" THEN "raised" ELSE "loop"
    /\ c_index' = c_index + 1
    /\ UNCHANGED <<c_cleaner, c_entities>>

\* the loop is over: deleted_count is returned
DeleteAllEntitiesEnd ==
    /\ UNCHANGED <<searchVars, ingestVars, scriptVars, gitVars, localVars, parseVars, authVars, entryVars, loopVars, blueprintVars, strategyVars, callVars>>
    /\ c_pc = "loop"
    /\ c_index = Len(c_entities)
    /\ c_pc' = "done"
    /\ UNCHANGED <<c_cleaner, c_entities, c_index, c_deleted, c_last>>

\* delete_entity(blueprint_id, entity_id) called on its own
DeleteEntityCall ==
    /\ UNCHANGED <<searchVars, ingestVars, scriptVars, gitVars, localVars, parseVars, authVars, entryVars, loopVars, blueprintVars, strategyVars, callVars>>
    /\ c_pc = "idle"
    /\ \E cleaner \in Cleaners, outcome \in DeleteOutcomes :
          LET got == DeleteEntity(cleaner, outcome)
          IN  c_last' = [called |-> TRUE, cleaner |-> cleaner, in_loop |-> FALSE,
                         outcome |-> outcome, sent |-> got.sent,
                         result |-> got.result, deleted_before |-> 0]
    /\ UNCHANGED <<c_pc, c_cleaner, c_entities, c_index, c_deleted>>

InitCleanup ==
    SearchIdle /\ IngestIdle /\ ScriptIdle /\ GitIdle /\ LocalIdle /\ ParseIdle /\ CleanupIdle /\ AuthIdle /\ EntryIdle /\ LoopIdle /\ BlueprintIdle /\ StrategyIdle /\ CallsIdle

NextCleanup ==
    \/ DeleteAllEntitiesCall
    \/ DeleteAllEntitiesStep
    \/ DeleteAllEntitiesEnd
    \/ DeleteEntityCall

SpecCleanup == InitCleanup /\ [][NextCleanup]_vars

\* C19: when the catalog answers the delete request for an entity with 404
\* (the entity does not exist), delete_entity returns True, and
\* delete_all_entities counts the entity as deleted.
C19_NotFoundIsDeleted ==
    (c_last.called /\ c_last.outcome = "404") =>
        /\ c_last.result.kind = "return"
        /\ c_last.result.value = TRUE
        /\ c_last.in_loop => c_deleted = c_last.deleted_before + 1

-----------------------------------------------------------------------------
(* The clients and their access token                                      *)

\* "package" is PortClient of src/port_tools/clients/port_client.py, which the
\* scripts construct; "legacy" is PortClient of custom_search.py, which its
\* DocumentSearcher constructs.
ClientClasses == { "package", "legacy" }

\* the answers to POST /v1/auth/access_token: a body with accessToken, a 200
\* body without the key, an error status, no answer
AuthOutcomes == { "token", "no_token_key", "error_status", "network_error" }

\* response.json().get("accessToken")
AccessToken(auth) == IF auth = "token" THEN "token" ELSE None

\* PortClient._authenticate of the package: the RequestException of a failed
\* request is logged and raised again, else the session carries the token
Authenticate(auth) ==
    IF auth \in {"error_status", "network_error"}
    THEN Raise("RequestException")
    ELSE Return(AccessToken(auth))

\* PortClient.authenticate of custom_search.py: every exception is caught and
\* False is returned; self.token is assigned only after a 200 answer
LegacyAuthenticate(auth) ==
    IF auth \in {"error_status", "network_error"}
    THEN [result |-> Return(FALSE), token |-> None]
    ELSE [result |-> Return(TRUE), token |-> AccessToken(auth)]

\* the constructor of either class: the package's assigns the session that
\* _authenticate returns, custom_search.py's calls authenticate() and drops
\* its result
NewPortClient(class, auth) ==
    IF class = "package"
    THEN LET session == Authenticate(auth)
         IN  IF session.kind = "raise"
             THEN [constructed |-> FALSE, token |-> None]
             ELSE [constructed |-> TRUE, token |-> session.value]
    ELSE [constructed |-> TRUE, token |-> LegacyAuthenticate(auth).token]

\* the requests a client of each class sends: create_blueprint, create_entity
\* and search_entities through the session, DocumentSearcher.search_entities
\* with get_headers()
RequestKinds(class) ==
    IF class = "package" THEN { "blueprint", "entity", "search" } ELSE { "search" }

\* the entry point constructs its client: main() of the scripts exits with
\* status 1 on the exception, DocumentationBot() of custom_search.py goes on
\* to its prompt
ClientConstruct ==
    /\ UNCHANGED <<searchVars, ingestVars, scriptVars, gitVars, localVars, parseVars,
                   cleanupVars, entryVars, loopVars, blueprintVars, strategyVars, callVars>>
    /\ a_pc = "start"
    /\ \E class \in ClientClasses, auth \in AuthOutcomes :
          LET client == NewPortClient(class, auth)
          IN  /\ a_client' = class
              /\ a_auth' = auth
              /\ a_constructed' = client.constructed
              /\ a_token' = client.token
              /\ a_pc' = IF client.constructed THEN "ready" ELSE "aborted"
    /\ UNCHANGED a_requests

\* the constructed client sends a request with its Authorization header
ClientRequest ==
    /\ UNCHANGED <<searchVars, ingestVars, scriptVars, gitVars, localVars, parseVars,
                   cleanupVars, entryVars, loopVars, blueprintVars, strategyVars, callVars>>
    /\ a_pc = "ready"
    /\ Len(a_requests) < MaxRequests
    /\ \E kind \in RequestKinds(a_client) :
          a_requests' = Append(a_requests, [kind |-> kind, token |-> a_token])
    /\ UNCHANGED <<a_pc, a_client, a_auth, a_constructed, a_token>>

InitAuth ==
    SearchIdle /\ IngestIdle /\ ScriptIdle /\ GitIdle /\ LocalIdle /\ ParseIdle /\ CleanupIdle /\ AuthIdle /\ EntryIdle /\ LoopIdle /\ BlueprintIdle /\ StrategyIdle /\ CallsIdle

NextAuth ==
    \/ ClientConstruct
    \/ ClientRequest

SpecAuth == InitAuth /\ [][NextAuth]_vars

\* C20: when the access-token request fails with an error status or a
\* network error, the client is not constructed and the entry point aborts;
\* every blueprint, entity or search request carries an access token that a
\* successful authentication returned.
C20_AuthenticationFailureIsFatal ==
    /\ a_auth \in {"error_status", "network_error"} =>
          (~ a_constructed /\ a_pc = "aborted")
    /\ \A i \in 1..Len(a_requests) :
          a_auth = "token" /\ a_requests[i].token = "token"

-----------------------------------------------------------------------------
(* The start of the entry points                                           *)

\* the scripts of scripts/, whose main() checks the credentials and calls
\* sys.exit(1)
PackageEntryPoints ==
    { "scripts/ingest_local_docs.py", "scripts/ingest_remote_readmes.py",
      "scripts/custom_search.py", "scripts/check_status.py",
      "scripts/cleanup_entities.py" }

\* the scripts at the top of the repository whose main() checks the
\* credentials and returns
ReturningEntryPoints == { "ingest_docs.py", "cleanup_entities.py" }

\* the scripts at the top of the repository that read the credentials and
\* use them unchecked
UncheckedEntryPoints == { "custom_search.py", "check_entities.py" }

EntryPoints == PackageEntryPoints \cup ReturningEntryPoints \cup UncheckedEntryPoints

\* what os.getenv gives for a credential: its value, "" for a variable set
\* to nothing, None for one that is not set
EnvValues == { "value", "", None }

\* os.getenv(name) of a script; ingest_docs.py gives '' as the default
GetEnv(entry, value) ==
    IF entry = "ingest_docs.py" /\ value = None THEN "" ELSE value

\* not CLIENT_ID or not CLIENT_SECRET
CredentialsMissing(client_id, client_secret) ==
    client_id \in {"", None} \/ client_secret \in {"", None}

\* main() up to the construction of its client: "exit" with a status, or on
\* to the access-token request
CheckCredentials(entry, client_id, client_secret) ==
    IF entry \in UncheckedEntryPoints
    THEN [pc |-> "auth", exit |-> 0]
    ELSE IF ~ CredentialsMissing(client_id, client_secret)
    THEN [pc |-> "auth", exit |-> 0]
    ELSE IF entry \in PackageEntryPoints
    THEN [pc |-> "exit", exit |-> 1]
    ELSE [pc |-> "exit", exit |-> 0]

\* what follows the access-token request in each script: the scripts of
\* scripts/ exit with 1 on the exception; ingest_docs.py and
\* cleanup_entities.py print it and return; custom_search.py goes on to its
\* prompt whatever the answer; check_entities.py reads ['accessToken'] from
\* the answer and ends with a traceback without it
AfterAuthentication(entry, auth) ==
    IF entry = "custom_search.py" THEN [pc |-> "running", exit |-> 0]
    ELSE IF entry = "check_entities.py"
    THEN IF auth = "token" THEN [pc |-> "running", exit |-> 0]
         ELSE [pc |-> "exit", exit |-> 1]
    ELSE IF entry \in PackageEntryPoints
    THEN IF Authenticate(auth).kind = "raise" THEN [pc |-> "exit", exit |-> 1]
         ELSE [pc |-> "running", exit |-> 0]
    ELSE IF auth = "token" THEN [pc |-> "running", exit |-> 0]
         ELSE [pc |-> "exit", exit |-> 0]

\* a script is started: main() reads the environment and checks it
EntryStart ==
    /\ UNCHANGED <<searchVars, ingestVars, scriptVars, gitVars, localVars, parseVars,
                   cleanupVars, authVars, loopVars, blueprintVars, strategyVars, callVars>>
    /\ e_pc = "start"
    /\ \E entry \in EntryPoints, client_id \in EnvValues, client_secret \in EnvValues :
          LET checked == CheckCredentials(entry, GetEnv(entry, client_id),
                                          GetEnv(entry, client_secret))
          IN  /\ e_entry' = entry
              /\ e_id' = GetEnv(entry, client_id)
              /\ e_secret' = GetEnv(entry, client_secret)
              /\ e_pc' = checked.pc
              /\ e_exit' = checked.exit
    /\ UNCHANGED e_requests

\* the client is constructed: the access-token request is sent with the
\* credentials that were read
EntryAuthenticate ==
    /\ UNCHANGED <<searchVars, ingestVars, scriptVars, gitVars, localVars, parseVars,
                   cleanupVars, authVars, loopVars, blueprintVars, strategyVars, callVars>>
    /\ e_pc = "auth"
    /\ \E auth \in AuthOutcomes :
          LET after == AfterAuthentication(e_entry, auth)
          IN  /\ CredentialsMissing(e_id, e_secret) => auth # "token"
              /\ e_requests' = Append(e_requests,
                                      [kind |-> "access_token", client_id |-> e_id,
                                       client_secret |-> e_secret, outcome |-> auth])
              /\ e_pc' = after.pc
              /\ e_exit' = after.exit
    /\ UNCHANGED <<e_entry, e_id, e_secret>>

InitEntry ==
    SearchIdle /\ IngestIdle /\ ScriptIdle /\ GitIdle /\ LocalIdle /\ ParseIdle /\ CleanupIdle /\ AuthIdle /\ EntryIdle /\ LoopIdle /\ BlueprintIdle /\ StrategyIdle /\ CallsIdle

NextEntry ==
    \/ EntryStart
    \/ EntryAuthenticate

SpecEntry == InitEntry /\ [][NextEntry]_vars

\* C21: for every entry point, when the client id or the client secret is
\* absent the process makes no network request and exits with a non-zero
\* status.
C21_MissingCredentialsFatal ==
    (e_pc # "start" /\ CredentialsMissing(e_id, e_secret)) =>
        /\ e_requests = <<>>
        /\ e_pc = "exit"
        /\ e_exit # 0

-----------------------------------------------------------------------------
(* The interactive loop                                                    *)

\* the two scripts with a prompt
LoopScripts == { "scripts/custom_search.py", "custom_search.py" }

\* what input() gives: a line, or one of the two exceptions it raises (the
\* interrupt key, the end of the input)
PromptLines == { "quit", "EXIT", " q ", "", "   ", "port", "quit now" }

PromptEvents == { "line", "KeyboardInterrupt", "EOFError" }

\* how bot.search_and_respond(query) ends.  With the PortClient of the
\* package every search fails inside search_entities (no _get_headers), so
\* the answer is _no_results_response; custom_search.py's searcher reaches
\* the catalog, whose entities give a response or make the response
\* building raise (entities or properties that are null).  The interrupt
\* key may arrive while the search runs.
SearchAndRespondOutcomes(which) ==
    IF which = "scripts/custom_search.py"
    THEN { "no_results", "KeyboardInterrupt" }
    ELSE { "response", "no_results", "raised", "KeyboardInterrupt" }

\* query.lower() in ['quit', 'exit', 'q']
IsQuit(text) == PyLower(text) \in { "quit", "exit", "q" }

\* one pass of `while True` in main(): what is printed, whether
\* search_and_respond was called, and whether the loop goes on.  In
\* scripts/custom_search.py the inner try catches KeyboardInterrupt only and
\* the outer except clause logs and calls sys.exit(1); in custom_search.py
\* the inner try also catches Exception, prints it and goes on.
LoopPass(which, event, line, outcome) ==
    LET stripped == PyStrip(line)
        farewell == [printed |-> "farewell", searched |-> FALSE, pc |-> "ended", exit |-> 0]
        again(p, srch) == [printed |-> p, searched |-> srch, pc |-> "prompt", exit |-> 0]
        failed(srch) ==
            IF which = "scripts/custom_search.py"
            THEN [printed |-> "none", searched |-> srch, pc |-> "ended", exit |-> 1]
            ELSE again("error", srch)
    IN  IF event = "KeyboardInterrupt" THEN farewell
        ELSE IF event = "EOFError" THEN failed(FALSE)
        ELSE IF IsQuit(stripped) THEN farewell
        ELSE IF stripped = ""
        THEN IF which = "scripts/custom_search.py"
             THEN again("none", FALSE)
             ELSE again("hint", FALSE)
        ELSE IF outcome = "KeyboardInterrupt"
        THEN [farewell EXCEPT !.searched = TRUE]
        ELSE IF outcome = "raised" THEN failed(TRUE)
        ELSE again("response", TRUE)

\* main() has constructed its bot and enters the loop
LoopStart ==
    /\ UNCHANGED <<searchVars, ingestVars, scriptVars, gitVars, localVars, parseVars,
                   cleanupVars, authVars, entryVars, blueprintVars, strategyVars, callVars>>
    /\ q_pc = "start"
    /\ \E which \in LoopScripts : q_script' = which
    /\ q_pc' = "prompt"
    /\ UNCHANGED <<q_prompts, q_searches, q_exit, q_last>>

\* one pass of the loop
LoopInput ==
    /\ UNCHANGED <<searchVars, ingestVars, scriptVars, gitVars, localVars, parseVars,
                   cleanupVars, authVars, entryVars, blueprintVars, strategyVars, callVars>>
    /\ q_pc = "prompt"
    /\ q_prompts < MaxPrompts
    /\ \E event \in PromptEvents, line \in PromptLines,
          outcome \in SearchAndRespondOutcomes(q_script) :
          LET pass == LoopPass(q_script, event, line, outcome)
          IN  /\ event # "line" => line = ""
              /\ ~ pass.searched => outcome = "no_results"
              /\ q_last' = [called |-> TRUE, event |-> event, line |-> line,
                            outcome |-> IF pass.searched THEN outcome ELSE "",
                            printed |-> pass.printed, searched |-> pass.searched]
              /\ q_searches' = IF pass.searched THEN q_searches + 1 ELSE q_searches
              /\ q_pc' = pass.pc
              /\ q_exit' = pass.exit
    /\ q_prompts' = q_prompts + 1
    /\ UNCHANGED q_script

InitLoop ==
    SearchIdle /\ IngestIdle /\ ScriptIdle /\ GitIdle /\ LocalIdle /\ ParseIdle /\ CleanupIdle /\ AuthIdle /\ EntryIdle /\ LoopIdle /\ BlueprintIdle /\ StrategyIdle /\ CallsIdle

NextLoop ==
    \/ LoopStart
    \/ LoopInput

SpecLoop == InitLoop /\ [][NextLoop]_vars

\* C22: the loop ends only on 'quit', 'exit' or 'q' or on a keyboard
\* interrupt, and then the farewell has been printed; a query that was
\* searched for, whatever the search returned or raised, is followed by a
\* printed response and a new prompt; an empty query issues no search.
C22_LoopEndsOnlyOnQuitOrInterrupt ==
    q_last.called =>
        /\ q_pc = "ended" =>
              /\ \/ q_last.event = "KeyboardInterrupt"
                 \/ q_last.outcome = "KeyboardInterrupt"
                 \/ (q_last.event = "line" /\ IsQuit(PyStrip(q_last.line)))
              /\ q_last.printed = "farewell"
        /\ (q_last.searched /\ q_last.outcome # "KeyboardInterrupt") =>
              (q_pc = "prompt" /\ q_last.printed \in {"response", "error"})
        /\ (q_last.event = "line" /\ PyStrip(q_last.line) = "") => ~ q_last.searched

\* what parse makes of a text whose front matter counts for nothing: the
\* record built from the given body and the path alone
FromBodyAndPath(result, body, file_path) ==
    /\ result.kind = "return"
    /\ result.value.content = body
    /\ result.value.title = ExtractTitle(body, file_path)
    /\ result.value.category = PathCategory(file_path)
    /\ PySet(result.value.tags) =
          ParentTag(file_path) \cup { t \in Vocabulary : Contains(PyLower(body), t) }

-----------------------------------------------------------------------------
(* setup_blueprint against one catalog                                     *)

\* ingester.setup_blueprint() is called: the definition file is read and
\* create_blueprint sends its requests to the catalog
SetupBlueprintCall ==
    /\ UNCHANGED <<searchVars, ingestVars, scriptVars, gitVars, localVars, parseVars,
                   cleanupVars, authVars, entryVars, loopVars, strategyVars, callVars>>
    /\ b_runs < MaxSetups
    /\ \E file \in BlueprintFiles, check \in RequestOutcomes, write \in RequestOutcomes :
          LET setup == SetupBlueprint(file, b_exists, check, write)
          IN  /\ Len(setup.requests) < 1 => check = "processed"
              /\ Len(setup.requests) < 2 => write = "processed"
              /\ b_exists' = setup.exists
              /\ b_last' = [called |-> TRUE, file |-> file, check |-> check,
                            write |-> write, existed |-> b_exists,
                            identifier |-> BLUEPRINT_ID,
                            requests |-> setup.requests, result |-> setup.result,
                            previous |-> IF b_last.called THEN b_last.result ELSE FALSE]
    /\ b_runs' = b_runs + 1

InitBlueprint ==
    SearchIdle /\ IngestIdle /\ ScriptIdle /\ GitIdle /\ LocalIdle /\ ParseIdle /\ CleanupIdle /\ AuthIdle /\ EntryIdle /\ LoopIdle /\ BlueprintIdle /\ StrategyIdle /\ CallsIdle

NextBlueprint == SetupBlueprintCall

SpecBlueprint == InitBlueprint /\ [][NextBlueprint]_vars

\* the parts of C24 that do not count the writes: no file or no JSON gives
\* False without a request; the write is a PUT when the check answered 200
\* and a POST otherwise; True exactly when a write was made and succeeded;
\* a run after a successful one, with its requests answered, updates the one
\* blueprint and returns True
CreateOrUpdate ==
    /\ b_last.file \in {"missing", "invalid_json"} =>
          (b_last.result = FALSE /\ b_last.requests = <<>>)
    /\ Len(b_last.requests) >= 1 => b_last.requests[1] = "GET"
    /\ Len(b_last.requests) = 2 =>
          b_last.requests[2] =
             IF b_last.check = "processed" /\ b_last.existed THEN "PUT" ELSE "POST"
    /\ b_last.result = TRUE <=>
          (Len(b_last.requests) = 2 /\ b_last.write = "processed"
             /\ ~ (b_last.requests[2] = "POST" /\ b_last.existed))
    /\ b_last.result = TRUE => b_exists
    /\ (b_last.previous /\ b_last.file \in {"ok", "other_identifier"}
          /\ b_last.check = "processed" /\ b_last.write = "processed") =>
          (b_last.requests = <<"GET", "PUT">> /\ b_last.result = TRUE /\ b_exists)

-----------------------------------------------------------------------------
(* multi_strategy_search seen from its caller                              *)

\* the answers of the remote to one search: lists whose entities can be
\* told apart, with and without identifiers, a body without the 'entities'
\* key, and a failure
Answers ==
    { [kind |-> "ok", has_entities |-> TRUE,
       entities |-> << Entity(TRUE, "a", "t1", FALSE, None),
                       Entity(TRUE, "b", "t1", FALSE, None),
                       Entity(TRUE, "c", "t1", FALSE, None) >>],
      [kind |-> "ok", has_entities |-> TRUE,
       entities |-> << Entity(TRUE, "c", "t1", FALSE, None),
                       Entity(TRUE, "a", "t2", FALSE, None) >>],
      [kind |-> "ok", has_entities |-> TRUE,
       entities |-> << Entity(FALSE, "", "t1", FALSE, None),
                       Entity(FALSE, "", "t2", FALSE, None),
                       Entity(TRUE, "b", "t1", FALSE, None) >>],
      [kind |-> "ok", has_entities |-> TRUE,
       entities |-> << Entity(FALSE, "", "t2", FALSE, None) >>],
      [kind |-> "ok", has_entities |-> FALSE, entities |-> <<>>],
      [kind |-> "exception", has_entities |-> FALSE, entities |-> <<>>] }

\* the answer that stands for a search that is never made
NoAnswer == [kind |-> "exception", has_entities |-> FALSE, entities |-> <<>>]

RECURSIVE KeywordLoop(_, _, _, _, _)
\* for keyword in keywords: a search for each keyword longer than 3
\* characters, whose slice is appended to all_results.  run holds the terms
\* searched for, the part of all_results each search gave, and all_results.
KeywordLoop(kws, i, answers, m, run) ==
    IF i > Len(kws) THEN run
    ELSE IF Len(kws[i]) > 3
    THEN LET keyword_results == SearchEntities(answers[Len(run.searches) + 1])
             slice == KeywordSlice(keyword_results, m)
         IN  KeywordLoop(kws, i + 1, answers, m,
                         [searches |-> Append(run.searches, kws[i]),
                          slices |-> Append(run.slices, slice),
                          all_results |-> run.all_results \o slice])
    ELSE KeywordLoop(kws, i + 1, answers, m, run)

\* multi_strategy_search(q, m) when the remote gives answers[n] to the n-th
\* search: the direct search, the keyword loop for a query of several
\* tokens, the deduplication and unique_results[:max_results]
MultiStrategySearch(q, m, answers) ==
    LET results == SearchEntities(answers[1])
        direct == [searches |-> <<q>>,
                   slices |-> << DirectSlice(results, m) >>,
                   all_results |-> DirectSlice(results, m)]
        kws == PySplit(q)
        run == IF Len(kws) > 1 THEN KeywordLoop(kws, 1, answers, m, direct) ELSE direct
    IN  [searches |-> run.searches, slices |-> run.slices,
         all_results |-> run.all_results,
         unique_results |-> DedupAndTruncate(run.all_results, m)]

\* how many searches the call makes for a query, which is how many answers
\* the remote gives
SearchCount(q) ==
    Len(MultiStrategySearch(q, 0, [n \in 1..Len(PySplit(q)) + 1 |-> NoAnswer]).searches)

\* a caller invokes multi_strategy_search(q, m) and gets its list
MultiStrategySearchCall ==
    /\ UNCHANGED <<searchVars, ingestVars, scriptVars, gitVars, localVars, parseVars,
                   cleanupVars, authVars, entryVars, loopVars, blueprintVars,
                   callVars>>
    /\ ~ m_last.called
    /\ \E q \in Queries, m \in (0..MaxResults) \cup {DEFAULT_MAX_RESULTS} :
        \E answers \in [1..SearchCount(q) -> Answers] :
          LET run == MultiStrategySearch(q, m, answers)
          IN  m_last' = [called |-> TRUE, query |-> q, max_results |-> m,
                         answers |-> answers,
                         searches |-> run.searches, slices |-> run.slices,
                         all_results |-> run.all_results,
                         unique_results |-> run.unique_results]

InitStrategy ==
    SearchIdle /\ IngestIdle /\ ScriptIdle /\ GitIdle /\ LocalIdle /\ ParseIdle /\ CleanupIdle /\ AuthIdle /\ EntryIdle /\ LoopIdle /\ BlueprintIdle /\ StrategyIdle /\ CallsIdle

NextStrategy == MultiStrategySearchCall

SpecStrategy == InitStrategy /\ [][NextStrategy]_vars

\* the tokens of each query that a keyword search is due for, in order
KeywordsDue(q) ==
    CASE q = "api docs" -> <<"docs">>
      [] q = "port api guide setup" -> <<"port", "guide", "setup">>
      [] OTHER -> <<>>

RECURSIVE SumLengths(_, _)
\* the number of entries in the first n lists of a sequence of lists
SumLengths(lists, n) ==
    IF n = 0 THEN 0 ELSE SumLengths(lists, n - 1) + Len(lists[n])

\* whether list is the first Len(list) entries of whole
IsPrefix(list, whole) ==
    Len(list) <= Len(whole) /\ list = SubSeq(whole, 1, Len(list))

\* C25: one direct search for the full query; keyword searches only for a
\* query of more than one token, one for each token longer than 3
\* characters, in token order; the direct search contributes at most
\* floor(max_results/2) entities and a keyword search at most
\* floor(max_results/4), each the first ones of what the remote returned.
C25_SearchesAndSlices ==
    m_last.called =>
        /\ m_last.searches = <<m_last.query>> \o KeywordsDue(m_last.query)
        /\ SearchesDue(m_last.query) = Len(m_last.searches)
        /\ Len(m_last.slices) = Len(m_last.searches)
        /\ \A n \in DOMAIN m_last.slices :
              LET limit == IF n = 1 THEN m_last.max_results \div 2
                           ELSE m_last.max_results \div 4
                  given == IF m_last.answers[n].kind = "ok"
                           THEN m_last.answers[n].entities ELSE <<>>
              IN  /\ Len(m_last.slices[n]) = Min(limit, Len(given))
                  /\ IsPrefix(m_last.slices[n], given)
        /\ Len(m_last.all_results) =
              SumLengths(m_last.slices, Len(m_last.slices))
        /\ \A n \in DOMAIN m_last.slices :
              m_last.slices[n] =
                 SubSeq(m_last.all_results,
                        SumLengths(m_last.slices, n - 1) + 1,
                        SumLengths(m_last.slices, n))

\* C25 witness: a query of four tokens, three of them longer than 3
\* characters: four searches, with the direct answer cut to 5 entities'
\* room and the keyword answers cut to 2.
C25_Witness ==
    /\ m_last.called
    /\ m_last.query = "port api guide setup"
    /\ m_last.max_results = DEFAULT_MAX_RESULTS
    /\ m_last.searches = <<"port api guide setup", "port", "guide", "setup">>
    /\ Len(m_last.answers[2].entities) = 3
    /\ Len(m_last.slices[2]) = 2
    /\ Len(m_last.slices[1]) = 3

\* C29: for every max_results >= 2, whenever the direct search succeeds and
\* returns at least one entity, the list multi_strategy_search returns is
\* not empty and starts with the first entity the direct search returned.
C29_DirectHitComesFirst ==
    (m_last.called /\ m_last.max_results >= 2
        /\ m_last.answers[1].kind = "ok" /\ m_last.answers[1].entities # <<>>) =>
        /\ m_last.unique_results # <<>>
        /\ m_last.unique_results[1] = m_last.answers[1].entities[1]

\* C29 witness: max_results 2, a direct answer of two entities and keyword
\* answers that start with other entities; the list starts with the direct
\* answer's first entity.
C29_Witness ==
    /\ m_last.called
    /\ m_last.max_results = 2
    /\ m_last.query = "api docs"
    /\ m_last.answers[1].kind = "ok"
    /\ Len(m_last.answers[1].entities) = 2
    /\ m_last.answers[2].kind = "ok"
    /\ Len(m_last.answers[2].entities) = 3
    /\ m_last.unique_results = << m_last.answers[1].entities[1] >>

\* the positions of a list that hold an entity without an identifier
WithoutIdentifier(list) == { i \in DOMAIN list : ~ list[i].has_identifier }

\* C30: the entities the remote returned without an identifier are all
\* deduplicated under the same empty identifier: at most one of them is in
\* the list multi_strategy_search returns, and it is the first one collected.
C30_OneEntityWithoutIdentifier ==
    m_last.called =>
        /\ Cardinality(WithoutIdentifier(m_last.unique_results)) <= 1
        /\ \A i \in WithoutIdentifier(m_last.unique_results) :
              \E j \in WithoutIdentifier(m_last.all_results) :
                  /\ \A k \in WithoutIdentifier(m_last.all_results) : j <= k
                  /\ m_last.unique_results[i] = m_last.all_results[j]

\* C30 witness: the direct search and a keyword search returned different
\* entities without an identifier; only the one of the direct search is in
\* the returned list.
C30_Witness ==
    /\ m_last.called
    /\ m_last.max_results = DEFAULT_MAX_RESULTS
    /\ Len(m_last.searches) = 2
    /\ m_last.slices[1] = << Entity(FALSE, "", "t2", FALSE, None) >>
    /\ m_last.slices[2] = << Entity(FALSE, "", "t1", FALSE, None),
                             Entity(FALSE, "", "t2", FALSE, None) >>
    /\ m_last.unique_results = << Entity(FALSE, "", "t2", FALSE, None) >>

-----------------------------------------------------------------------------
(* The catalog requests behind ingest_document and search_entities         *)

\* create_entity with the request sent again after a failure
CreateEntityRequestsRetried(outcome) ==
    IF outcome = "processed"
    THEN << "POST /v1/blueprints/documentation/entities" >>
    ELSE << "POST /v1/blueprints/documentation/entities",
            "POST /v1/blueprints/documentation/entities" >>

\* the requests PortClient.create_entity sends: the one session.post of its
\* try block, whatever becomes of it
CreateEntityRequests(outcome) ==
    << "POST /v1/blueprints/documentation/entities" >>

\* the requests behind one ingest_document call: none for an argument that is
\* no DocMetadata, else those of create_entity
IngestDocumentRequests(doc_metadata, outcome) ==
    IF doc_metadata.cls # "DocMetadata" THEN <<>> ELSE CreateEntityRequests(outcome)

\* the requests DocumentSearcher.search_entities sends: the one requests.post
\* of its try block, or none when the headers cannot be had from the client
\* (the exception is raised while the arguments of the call are evaluated)
SearchEntitiesRequests(has_get_headers, outcome) ==
    IF has_get_headers
    THEN << "POST /v1/blueprints/documentation/entities/search" >>
    ELSE <<>>

\* the answers to the searches of one call, their entities left out
SearchAnswers == { o \in RemoteSearchOutcomes : o.entities = <<>> }

\* the terms multi_strategy_search passes to search_entities: the query, then
\* each token longer than three characters of a query of several tokens
SearchTerms(q) ==
    << q >> \o (IF Len(PySplit(q)) > 1
                THEN SelectSeq(PySplit(q), LAMBDA keyword : Len(keyword) > 3)
                ELSE <<>>)

\* a caller starts on its items: main() of an ingestion script on the records
\* of its fetcher, multi_strategy_search on the terms of its query
ItemLoopStart ==
    /\ UNCHANGED <<searchVars, ingestVars, scriptVars, gitVars, localVars, parseVars,
                   cleanupVars, authVars, entryVars, loopVars, blueprintVars,
                   strategyVars>>
    /\ n_pc = "idle"
    /\ \/ /\ n_caller' = "main"
          /\ \E n \in 0..MaxItems :
                n_items' \in [1..n -> DocMetadatas \cup {NotDocMetadata}]
       \/ /\ n_caller' = "multi_strategy_search"
          /\ \E q \in Queries : n_items' = SearchTerms(q)
    /\ n_log' = <<>>
    /\ n_pc' = IF n_items' = <<>> THEN "done" ELSE "loop"

\* the caller takes its next item: one ingest_document or search_entities
\* call, whose result it notes before it goes on
ItemLoopStep ==
    /\ UNCHANGED <<searchVars, ingestVars, scriptVars, gitVars, localVars, parseVars,
                   cleanupVars, authVars, entryVars, loopVars, blueprintVars,
                   strategyVars>>
    /\ n_pc = "loop"
    /\ LET item == n_items[Len(n_log) + 1]
           last == Len(n_log) + 1 = Len(n_items)
       IN  \/ /\ n_caller = "main"
              /\ \E outcome \in RequestOutcomes :
                    LET done == IngestDocument({}, item, outcome, TRUE)
                        ok == done.result = Return(TRUE)
                    IN  /\ n_log' = Append(n_log,
                               [item |-> item, failed |-> outcome # "processed",
                                requests |-> IngestDocumentRequests(item, outcome),
                                ok |-> ok])
                        /\ n_pc' = IF AfterIngest(ok) = "loop" /\ ~last
                                   THEN "loop" ELSE "done"
           \/ /\ n_caller = "multi_strategy_search"
              /\ \E outcome \in SearchAnswers, has_get_headers \in BOOLEAN :
                    LET results == SearchEntities(outcome)
                    IN  /\ ~has_get_headers => outcome.kind = "exception"
                        /\ n_log' = Append(n_log,
                               [item |-> item, failed |-> outcome.kind # "ok",
                                requests |-> SearchEntitiesRequests(has_get_headers,
                                                                    outcome),
                                ok |-> results.ok])
                        /\ n_pc' = IF last THEN "done" ELSE "loop"
    /\ UNCHANGED <<n_caller, n_items>>

InitCalls == SearchIdle /\ IngestIdle /\ ScriptIdle /\ GitIdle /\ LocalIdle /\ ParseIdle /\ CleanupIdle /\ AuthIdle /\ EntryIdle /\ LoopIdle /\ BlueprintIdle /\ StrategyIdle /\ CallsIdle

NextCalls == ItemLoopStart \/ ItemLoopStep

SpecCalls == InitCalls /\ [][NextCalls]_vars

\* C27: no catalog call is retried: each ingest_document call sends at most one
\* upsert request and each search_entities call at most one search request; a
\* failed request makes the result of that one call a failure, a request that
\* went through after it still succeeds, and the caller takes every item of
\* its list, the ones after a failure included.
C27_NoRetryFailureIsolated ==
    /\ Len(n_log) <= Len(n_items)
    /\ \A i \in 1..Len(n_log) :
          /\ n_log[i].item = n_items[i]
          /\ Len(n_log[i].requests) <= 1
          /\ n_log[i].failed => ~ n_log[i].ok
          /\ (~ n_log[i].failed /\ n_log[i].requests # <<>>) => n_log[i].ok
    /\ n_pc = "loop" => Len(n_log) < Len(n_items)
    /\ n_pc = "done" => Len(n_log) = Len(n_items)

\* C27 witness: an ingestion loop is through its three records; the request
\* of the first failed, that of the second went through.
C27_Witness ==
    /\ n_pc = "done"
    /\ n_caller = "main"
    /\ Len(n_log) = 3
    /\ n_log[1].failed
    /\ Len(n_log[1].requests) = 1
    /\ ~ n_log[1].ok
    /\ n_log[2].ok
    /\ Len(n_log[2].requests) = 1

\* C27 witness of the search side: a search whose request failed was followed
\* by the search of the next term.
C27_SearchWitness ==
    /\ n_caller = "multi_strategy_search"
    /\ Len(n_log) >= 2
    /\ n_log[1].failed
    /\ n_log[2].ok

====
